---------------------------- MODULE Spec2Model ----------------------------
(***************************************************************************)
(* Suggestion arbitration of multitask_helper: the content classifier      *)
(* (rule.py), the rule-based suggestion engine (rule.py), the LLM          *)
(* suggestion engine (llm.py) and the controller that arbitrates between   *)
(* the two engines (controller.py).                                        *)
(*                                                                         *)
(* Python strings are modelled as sequences of one-character strings.      *)
(* Confidences and rule scores are integers in hundredths (0.85 is 85),    *)
(* LLM scores are integers in thousandths (0.8 is 800).                    *)
(***************************************************************************)
EXTENDS Integers, Sequences, FiniteSets, TLC

---------------------------------------------------------------------------
(* Bounds of the model                                                     *)

\* number of windows the window directory can show at once
MaxWindows == 6

\* number of fragments a classified text or a parsed reply is made of
MaxFragments == 3

\* number of monitor threads start_monitoring ever creates
MaxThreads == 3

---------------------------------------------------------------------------
(* Python str operations                                                   *)

SetMin(S) == CHOOSE x \in S : \A y \in S : x <= y

SetMax(S) == CHOOSE x \in S : \A y \in S : x >= y

MinOf(a, b) == IF a <= b THEN a ELSE b

UpperAlpha == <<"A","B","C","D","E","F","G","H","I","J","K","L","M","N","O","P","Q","R","S","T","U","V","W","X","Y","Z">>

LowerAlpha == <<"a","b","c","d","e","f","g","h","i","j","k","l","m","n","o","p","q","r","s","t","u","v","w","x","y","z">>

Digits == <<"0","1","2","3","4","5","6","7","8","9">>

SeqRange(s) == {s[i] : i \in 1..Len(s)}

\* c.isupper(), c.islower(), c.isalpha(), c.isdigit() on ASCII characters
IsUpper(c) == c \in SeqRange(UpperAlpha)

IsLower(c) == c \in SeqRange(LowerAlpha)

IsAlpha(c) == IsUpper(c) \/ IsLower(c)

IsDigit(c) == c \in SeqRange(Digits)

\* the characters str.strip() and str.split() treat as whitespace
IsSpace(c) == c \in {" ", "\t", "\n", "\r", "\f"}

LowerChar(c) ==
    IF IsUpper(c)
    THEN LowerAlpha[CHOOSE i \in 1..26 : UpperAlpha[i] = c]
    ELSE c

\* s.lower()
Lower(s) == [i \in 1..Len(s) |-> LowerChar(s[i])]

\* s.strip()
Strip(s) ==
    LET keep == {i \in 1..Len(s) : ~IsSpace(s[i])}
    IN  IF keep = {} THEN <<>> ELSE SubSeq(s, SetMin(keep), SetMax(keep))

\* p occurs in s at index i
MatchAt(s, p, i) ==
    /\ i >= 1
    /\ i + Len(p) - 1 <= Len(s)
    /\ \A k \in 1..Len(p) : s[i + k - 1] = p[k]

\* p in s
Contains(s, p) == \E i \in 1..(Len(s) - Len(p) + 1) : MatchAt(s, p, i)

\* s.startswith(p)
StartsWith(s, p) == MatchAt(s, p, 1)

\* s.endswith(p)
EndsWith(s, p) == MatchAt(s, p, Len(s) - Len(p) + 1)

\* len(s.split(c)) for a one-character separator c
SplitCount(s, c) == Cardinality({i \in 1..Len(s) : s[i] = c}) + 1

\* s.split(c)[k] for a one-character separator c, k counted from 1
SplitPart(s, c, k) ==
    LET cuts == {i \in 1..Len(s) : s[i] = c}
        before == {i \in cuts : Cardinality({j \in cuts : j < i}) = k - 2}
        after == {i \in cuts : Cardinality({j \in cuts : j < i}) = k - 1}
        lo == IF k = 1 THEN 1 ELSE SetMin(before) + 1
        hi == IF after = {} THEN Len(s) ELSE SetMin(after) - 1
    IN  SubSeq(s, lo, hi)

\* len(s.split()): the number of whitespace-separated tokens
TokenCount(s) ==
    Cardinality({i \in 1..Len(s) :
        ~IsSpace(s[i]) /\ (i = 1 \/ IsSpace(s[i - 1]))})

\* s.replace(old, new) for a one-character old
ReplaceChar(s, old, new) == [i \in 1..Len(s) |-> IF s[i] = old THEN new ELSE s[i]]

\* the number of entries of the list pats that occur in s
CountIn(pats, s) == Cardinality({i \in 1..Len(pats) : Contains(s, pats[i])})

\* any(s.startswith(p) for p in pats), any(s.endswith(p) ...), any(p in s ...)
AnyStartsWith(s, pats) == \E i \in 1..Len(pats) : StartsWith(s, pats[i])

AnyEndsWith(s, pats) == \E i \in 1..Len(pats) : EndsWith(s, pats[i])

AnyIn(pats, s) == \E i \in 1..Len(pats) : Contains(s, pats[i])

---------------------------------------------------------------------------
(* rule.py: ContentClassifier                                              *)

\* the high-weight patterns without 'def '
code_patterns_high_nodef ==
    << <<"f","u","n","c","t","i","o","n"," ">>, <<"c","l","a","s","s"," ">>, <<"i","m","p","o","r","t"," ">>, <<"f","r","o","m"," ">>, <<"#","i","n","c","l","u","d","e">>,
       <<"p","u","b","l","i","c"," ","c","l","a","s","s">>, <<"S","E","L","E","C","T"," ">>, <<"F","R","O","M"," ">>, <<"C","R","E","A","T","E"," ","T","A","B","L","E">>, <<"I","N","S","E","R","T"," ","I","N","T","O">> >>

code_patterns_high ==
    << <<"d","e","f"," ">>, <<"f","u","n","c","t","i","o","n"," ">>, <<"c","l","a","s","s"," ">>, <<"i","m","p","o","r","t"," ">>, <<"f","r","o","m"," ">>, <<"#","i","n","c","l","u","d","e">>,
       <<"p","u","b","l","i","c"," ","c","l","a","s","s">>, <<"S","E","L","E","C","T"," ">>, <<"F","R","O","M"," ">>, <<"C","R","E","A","T","E"," ","T","A","B","L","E">>, <<"I","N","S","E","R","T"," ","I","N","T","O">> >>

code_patterns_medium ==
    << <<"p","r","i","v","a","t","e"," ">>, <<"p","u","b","l","i","c"," ">>, <<"v","a","r"," ">>, <<"l","e","t"," ">>, <<"c","o","n","s","t"," ">>, <<"=",">">>, <<"f","u","n","c","t","i","o","n","(">>,
       <<"i","f"," ","(">>, <<"f","o","r"," ","(">>, <<"w","h","i","l","e"," ","(">>, <<"c","a","t","c","h"," ","(">>, <<"t","r","y"," ","{">> >>

code_patterns_low ==
    << <<"{">>, <<"}">>, <<"=","=">>, <<"!","=">>, <<"&","&">>, <<"|","|">>, <<"+","+">>, <<"-","-">> >>

file_extensions ==
    << <<".","t","x","t">>, <<".","p","y">>, <<".","j","s">>, <<".","h","t","m","l">>, <<".","c","s","s">>, <<".","j","s","o","n">>, <<".","x","m","l">>, <<".","m","d">>,
       <<".","c","s","v">>, <<".","x","l","s","x">>, <<".","p","d","f">>, <<".","d","o","c">>, <<".","p","p","t">>, <<".","z","i","p">>, <<".","r","a","r">> >>

\* url_indicators without the https scheme
url_indicators_plain == << <<"h","t","t","p",":","/","/">>, <<"w","w","w",".">>, <<"f","t","p",":","/","/">> >>

url_indicators == << <<"h","t","t","p",":","/","/">>, <<"h","t","t","p","s",":","/","/">>, <<"w","w","w",".">>, <<"f","t","p",":","/","/">> >>

domain_tlds ==
    << <<".","c","o","m">>, <<".","o","r","g">>, <<".","n","e","t">>, <<".","e","d","u">>, <<".","g","o","v">>, <<".","i","o">>, <<".","c","o">>, <<".","a","i">>, <<".","d","e","v">> >>

email_patterns ==
    << <<"d","e","a","r"," ">>, <<"h","e","l","l","o"," ">>, <<"h","i"," ">>, <<"g","r","e","e","t","i","n","g","s">>,
       <<"s","i","n","c","e","r","e","l","y">>, <<"b","e","s","t"," ","r","e","g","a","r","d","s">>, <<"k","i","n","d"," ","r","e","g","a","r","d","s">>, <<"y","o","u","r","s"," ","t","r","u","l","y">>,
       <<"s","u","b","j","e","c","t",":">>, <<"t","o",":">>, <<"f","r","o","m",":">>, <<"c","c",":">>, <<"b","c","c",":">>,
       <<"[","r","e","c","i","p","i","e","n","t">>, <<"d","e","a","r"," ","s","i","r">>, <<"d","e","a","r"," ","m","a","d","a","m">> >>

data_indicators == << "\t", ",", "|", ";" >>

special_chars == <<"!","@","#","$","%","^","&","*","(",")","_","+","-","=">>

\* the (type, confidence) pair that classify_content returns
Classified(t, c) == [type |-> t, conf |-> c]

\* classify_content with the e-mail address test ahead of the domain test
classify_content_address_first(content) ==
    LET content_lower == Strip(Lower(content))
        \* URL detection
        isUrl == AnyStartsWith(content_lower, url_indicators)
        urlConf == IF AnyStartsWith(content_lower, << <<"h","t","t","p",":","/","/">>, <<"h","t","t","p","s",":","/","/">> >>)
                   THEN 95 ELSE 85
        \* domain name detection
        isDomain == /\ Contains(content, <<".">>)
                    /\ ~Contains(Strip(content), <<" ">>)
                    /\ AnyEndsWith(content_lower, domain_tlds)
                    /\ SplitCount(content, ".") >= 2
        \* e-mail address detection
        parts1 == SplitPart(content, "@", 2)
        isAddress == /\ Contains(content, <<"@">>)
                     /\ Contains(content, <<".">>)
                     /\ SplitCount(content, "@") = 2
                     /\ Contains(parts1, <<".">>)
                     /\ SplitCount(parts1, ".") >= 2
        lastLabel == SplitPart(parts1, ".", SplitCount(parts1, "."))
        addressConf == IF Len(lastLabel) >= 2 THEN 90 ELSE 70
        \* e-mail content patterns
        content_words == ReplaceChar(content_lower, "\n", " ")
        email_indicators == CountIn(email_patterns, content_words)
        isMail == \/ email_indicators >= 2
                  \/ (email_indicators >= 1 /\ SplitCount(content, "\n") > 2)
        mailConf == MinOf(90, 60 + email_indicators * 10)
        \* file path detection: two backslashes in a row, or a slash
        isPath == /\ (Contains(content, <<"\\","\\">>) \/ Contains(content, <<"/">>))
                  /\ TokenCount(content) = 1
        pathConf == IF AnyEndsWith(content_lower, file_extensions) THEN 90 ELSE 70
        \* password detection
        isPassword == /\ Len(content) < 50
                      /\ ~Contains(content, <<" ">>)
                      /\ \E i \in 1..Len(content) : IsDigit(content[i])
                      /\ \E i \in 1..Len(content) : IsAlpha(content[i])
        has_special == \E i \in 1..Len(content) : content[i] \in SeqRange(special_chars)
        mixed_case == /\ \E i \in 1..Len(content) : IsUpper(content[i])
                      /\ \E i \in 1..Len(content) : IsLower(content[i])
        passwordConf == IF has_special /\ mixed_case THEN 80 ELSE 60
        \* code pattern detection
        code_score == CountIn(code_patterns_high, content_lower) * 40
                      + CountIn(code_patterns_medium, content_lower) * 25
                      + CountIn(code_patterns_low, content_lower) * 10
        codeConf == MinOf(95, 50 + code_score)
        \* tabular data detection
        nlines == SplitCount(content, "\n")
        separator_count ==
            Cardinality({p \in (1..MinOf(5, nlines)) \X (1..Len(data_indicators)) :
                Contains(SplitPart(content, "\n", p[1]), <<data_indicators[p[2]]>>)})
        isTable == nlines > 3 /\ separator_count >= 3
        tableConf == IF Contains(content, <<"\t">>) \/ Contains(content, <<",">>)
                     THEN 80 ELSE 60
        \* numeric data detection
        numbers == Cardinality({i \in 1..Len(content) : IsDigit(content[i])})
        isNumeric == numbers * 10 > Len(content) * 3 /\ Len(content) > 10
        text_confidence == IF Len(content) > 20 THEN 90 ELSE 60
    IN  IF isUrl THEN Classified("WEB", urlConf)
        ELSE IF isAddress THEN Classified("EMAIL", addressConf)
        ELSE IF isDomain THEN Classified("WEB", 85)
        ELSE IF isMail THEN Classified("EMAIL", mailConf)
        ELSE IF isPath THEN Classified("FILE", pathConf)
        ELSE IF isPassword THEN Classified("PASSWORD", passwordConf)
        ELSE IF code_score >= 30 THEN Classified("CODE", codeConf)
        ELSE IF isTable THEN Classified("DATA", tableConf)
        ELSE IF isNumeric THEN Classified("DATA", 70)
        ELSE Classified("TEXT", text_confidence)

classify_content(content) ==
    LET content_lower == Strip(Lower(content))
        \* URL detection
        isUrl == AnyStartsWith(content_lower, url_indicators)
        urlConf == IF AnyStartsWith(content_lower, << <<"h","t","t","p",":","/","/">>, <<"h","t","t","p","s",":","/","/">> >>)
                   THEN 95 ELSE 85
        \* domain name detection
        isDomain == /\ Contains(content, <<".">>)
                    /\ ~Contains(Strip(content), <<" ">>)
                    /\ AnyEndsWith(content_lower, domain_tlds)
                    /\ SplitCount(content, ".") >= 2
        \* e-mail address detection
        parts1 == SplitPart(content, "@", 2)
        isAddress == /\ Contains(content, <<"@">>)
                     /\ Contains(content, <<".">>)
                     /\ SplitCount(content, "@") = 2
                     /\ Contains(parts1, <<".">>)
                     /\ SplitCount(parts1, ".") >= 2
        lastLabel == SplitPart(parts1, ".", SplitCount(parts1, "."))
        addressConf == IF Len(lastLabel) >= 2 THEN 90 ELSE 70
        \* e-mail content patterns
        content_words == ReplaceChar(content_lower, "\n", " ")
        email_indicators == CountIn(email_patterns, content_words)
        isMail == \/ email_indicators >= 2
                  \/ (email_indicators >= 1 /\ SplitCount(content, "\n") > 2)
        mailConf == MinOf(90, 60 + email_indicators * 10)
        \* file path detection: two backslashes in a row, or a slash
        isPath == /\ (Contains(content, <<"\\","\\">>) \/ Contains(content, <<"/">>))
                  /\ TokenCount(content) = 1
        pathConf == IF AnyEndsWith(content_lower, file_extensions) THEN 90 ELSE 70
        \* password detection
        isPassword == /\ Len(content) < 50
                      /\ ~Contains(content, <<" ">>)
                      /\ \E i \in 1..Len(content) : IsDigit(content[i])
                      /\ \E i \in 1..Len(content) : IsAlpha(content[i])
        has_special == \E i \in 1..Len(content) : content[i] \in SeqRange(special_chars)
        mixed_case == /\ \E i \in 1..Len(content) : IsUpper(content[i])
                      /\ \E i \in 1..Len(content) : IsLower(content[i])
        passwordConf == IF has_special /\ mixed_case THEN 80 ELSE 60
        \* code pattern detection
        code_score == CountIn(code_patterns_high, content_lower) * 40
                      + CountIn(code_patterns_medium, content_lower) * 25
                      + CountIn(code_patterns_low, content_lower) * 10
        codeConf == MinOf(95, 50 + code_score)
        \* tabular data detection
        nlines == SplitCount(content, "\n")
        separator_count ==
            Cardinality({p \in (1..MinOf(5, nlines)) \X (1..Len(data_indicators)) :
                Contains(SplitPart(content, "\n", p[1]), <<data_indicators[p[2]]>>)})
        isTable == nlines > 3 /\ separator_count >= 3
        tableConf == IF Contains(content, <<"\t">>) \/ Contains(content, <<",">>)
                     THEN 80 ELSE 60
        \* numeric data detection
        numbers == Cardinality({i \in 1..Len(content) : IsDigit(content[i])})
        isNumeric == numbers * 10 > Len(content) * 3 /\ Len(content) > 10
        text_confidence == IF Len(content) > 20 THEN 90 ELSE 60
    IN  IF isUrl THEN Classified("WEB", urlConf)
        ELSE IF isDomain THEN Classified("WEB", 85)
        ELSE IF isAddress THEN Classified("EMAIL", addressConf)
        ELSE IF isMail THEN Classified("EMAIL", mailConf)
        ELSE IF isPath THEN Classified("FILE", pathConf)
        ELSE IF isPassword THEN Classified("PASSWORD", passwordConf)
        ELSE IF code_score >= 30 THEN Classified("CODE", codeConf)
        ELSE IF isTable THEN Classified("DATA", tableConf)
        ELSE IF isNumeric THEN Classified("DATA", 70)
        ELSE Classified("TEXT", text_confidence)

---------------------------------------------------------------------------
(* Optional values: Python's None next to a list, a string or a score      *)

\* None where a list of suggestions is expected
NoneList == [none |-> TRUE, list |-> <<>>]

SomeList(l) == [none |-> FALSE, list |-> l]

\* None where a string is expected (no Python string has this element)
NoneStr == <<"None">>

\* None where a score is expected
NoScore == -1

---------------------------------------------------------------------------
(* windows.py: WindowInfo and the window directory                         *)

\* WindowInfo; pid and is_visible are never read by the suggestion engines
WindowInfo(h, t, p, m) == [hwnd |-> h, title |-> t, process_name |-> p, is_minimized |-> m]

\* windows of user applications, ordered by process name as
\* get_application_windows orders them
KnownWindows ==
    << [title |-> <<"a",".","i","o"," ","-"," ","w","e","b">>,   process_name |-> <<"c","h","r","o","m","e",".","e","x","e">>,  is_minimized |-> FALSE],
       [title |-> <<"N","e","w","s">>,         process_name |-> <<"c","h","r","o","m","e",".","e","x","e">>,  is_minimized |-> TRUE],
       [title |-> <<"x",".","p","y"," ","-"," ","e","d","i","t","o","r">>, process_name |-> <<"C","o","d","e",".","e","x","e">>,    is_minimized |-> FALSE],
       [title |-> <<"U","n","t","i","t","l","e","d">>,     process_name |-> <<"n","o","t","e","p","a","d",".","e","x","e">>, is_minimized |-> FALSE],
       [title |-> <<"M","o","v","i","e">>,        process_name |-> <<"v","l","c",".","e","x","e">>,     is_minimized |-> TRUE],
       [title |-> <<"C","a","l","l">>,         process_name |-> <<"z","o","o","m",".","e","x","e">>,    is_minimized |-> TRUE],
       [title |-> <<"B","u","d","g","e","t"," ","s","h","e","e","t">>, process_name |-> <<"z","z","z",".","e","x","e">>,     is_minimized |-> FALSE] >>

\* the window with handle h
WindowAt(h) ==
    LET k == IF h <= Len(KnownWindows) THEN h ELSE Len(KnownWindows)
    IN  WindowInfo(h, KnownWindows[k].title, KnownWindows[k].process_name,
                   KnownWindows[k].is_minimized)

\* the sequence of the elements of a set of handles, in increasing order
RECURSIVE Ascending(_)
Ascending(S) ==
    IF S = {} THEN <<>>
    ELSE <<WindowAt(SetMin(S))>> \o Ascending(S \ {SetMin(S)})

\* the lists get_filtered_windows can return: any of the open windows,
\* sorted by process name
get_filtered_windows == {Ascending(S) : S \in SUBSET (1..MaxWindows)}

---------------------------------------------------------------------------
(* rule.py: RuleBasedSuggestionEngine                                      *)

Mapping(h, m, k) == [high_priority |-> h, medium_priority |-> m, keywords |-> k]

content_mappings ==
    [t \in {"CODE", "WEB", "EMAIL", "FILE_PATH", "PASSWORD", "DATA", "TEXT"} |->
        CASE t = "CODE" ->
                Mapping(<< <<"c","o","d","e">>, <<"p","y","c","h","a","r","m">>, <<"i","d","e","a">>, <<"s","u","b","l","i","m","e">>, <<"a","t","o","m">>, <<"v","i","m">> >>,
                        << <<"n","o","t","e","p","a","d","+","+">>, <<"n","o","t","e","p","a","d">>, <<"w","o","r","d","p","a","d">> >>,
                        << <<"e","d","i","t","o","r">>, <<"i","d","e">>, <<"d","e","v","e","l","o","p","m","e","n","t">> >>)
          [] t = "WEB" ->
                Mapping(<< <<"c","h","r","o","m","e">>, <<"f","i","r","e","f","o","x">>, <<"e","d","g","e">>, <<"s","a","f","a","r","i">>, <<"o","p","e","r","a">>, <<"b","r","a","v","e">> >>,
                        << <<"i","e","x","p","l","o","r","e">> >>,
                        << <<"b","r","o","w","s","e","r">>, <<"w","e","b">> >>)
          [] t = "EMAIL" ->
                Mapping(<< <<"o","u","t","l","o","o","k">>, <<"t","h","u","n","d","e","r","b","i","r","d">>, <<"m","a","i","l","s","p","r","i","n","g">> >>,
                        << <<"c","h","r","o","m","e">>, <<"f","i","r","e","f","o","x">>, <<"e","d","g","e">> >>,
                        << <<"m","a","i","l">>, <<"e","m","a","i","l">> >>)
          [] t = "FILE_PATH" ->
                Mapping(<< <<"e","x","p","l","o","r","e","r">>, <<"n","a","u","t","i","l","u","s">>, <<"f","i","n","d","e","r">> >>,
                        << <<"c","m","d">>, <<"p","o","w","e","r","s","h","e","l","l">>, <<"t","e","r","m","i","n","a","l">> >>,
                        << <<"f","i","l","e">>, <<"f","o","l","d","e","r">>, <<"d","i","r","e","c","t","o","r","y">> >>)
          [] t = "PASSWORD" ->
                Mapping(<< <<"c","h","r","o","m","e">>, <<"f","i","r","e","f","o","x">>, <<"e","d","g","e">>, <<"1","p","a","s","s","w","o","r","d">>, <<"b","i","t","w","a","r","d","e","n">> >>,
                        << <<"n","o","t","e","p","a","d">>, <<"k","e","e","p","a","s","s">> >>,
                        << <<"p","a","s","s","w","o","r","d">>, <<"l","o","g","i","n">>, <<"a","u","t","h">> >>)
          [] t = "DATA" ->
                Mapping(<< <<"e","x","c","e","l">>, <<"c","a","l","c">>, <<"t","a","b","l","e","a","u">>, <<"p","o","w","e","r","b","i">> >>,
                        << <<"n","o","t","e","p","a","d">>, <<"w","o","r","d">>, <<"c","h","r","o","m","e">> >>,
                        << <<"d","a","t","a">>, <<"s","p","r","e","a","d","s","h","e","e","t">>, <<"c","s","v">>, <<"t","a","b","l","e">> >>)
          [] t = "TEXT" ->
                Mapping(<< <<"n","o","t","e","p","a","d">>, <<"w","o","r","d","p","a","d">>, <<"w","o","r","d">>, <<"w","r","i","t","e","r">> >>,
                        << <<"c","h","r","o","m","e">>, <<"f","i","r","e","f","o","x">>, <<"e","d","g","e">> >>,
                        << <<"t","e","x","t">>, <<"d","o","c","u","m","e","n","t">>, <<"n","o","t","e">> >>)]

\* s.replace(p, '') for a non-empty p
RECURSIVE RemoveAll(_, _)
RemoveAll(s, p) ==
    IF Len(s) = 0 THEN <<>>
    ELSE IF MatchAt(s, p, 1) THEN RemoveAll(SubSeq(s, Len(p) + 1, Len(s)), p)
    ELSE <<s[1]>> \o RemoveAll(SubSeq(s, 2, Len(s)), p)

\* group 1 of re.search(r'(?:https?://)?(?:www\.)?([^/\s]+)', s) for an s
\* that starts with 'http' or 'www': the match starts at the first character
UrlDomain(s) ==
    LET Run(from) ==
            LET stop == {i \in from..Len(s) : s[i] = "/" \/ IsSpace(s[i])}
            IN  SubSeq(s, from, IF stop = {} THEN Len(s) ELSE SetMin(stop) - 1)
        scheme == IF StartsWith(s, <<"h","t","t","p","s",":","/","/">>) THEN 8
                  ELSE IF StartsWith(s, <<"h","t","t","p",":","/","/">>) THEN 7 ELSE 0
        WwwAt(from) == IF MatchAt(s, <<"w","w","w",".">>, from) THEN 4 ELSE 0
        \* the optional groups are greedy; the regex gives one up only when
        \* nothing is left for the domain group
        tries == << scheme + WwwAt(scheme + 1), scheme, WwwAt(1), 0 >>
        first == SetMin({k \in 1..4 : Len(Run(tries[k] + 1)) > 0})
    IN  Run(tries[first] + 1)

_get_content_specific_score(window, content) ==
    LET title_lower == Lower(window.title)
        content_lower == Lower(content)
    IN  IF /\ (StartsWith(content_lower, <<"h","t","t","p">>) \/ StartsWith(content_lower, <<"w","w","w">>))
           /\ Contains(title_lower, UrlDomain(content_lower))
        THEN 30
        ELSE IF /\ (Contains(content, <<"\\","\\">>) \/ Contains(content, <<"/">>))
                /\ AnyIn(<< <<"f","i","l","e">>, <<"f","o","l","d","e","r">>, <<"e","x","p","l","o","r","e","r">> >>, title_lower)
        THEN 20
        ELSE IF /\ AnyIn(<< <<"d","e","f"," ">>, <<"f","u","n","c","t","i","o","n">>, <<"c","l","a","s","s"," ">> >>, content_lower)
                /\ AnyIn(<< <<"c","o","d","e">>, <<"e","d","i","t","o","r">>, <<"i","d","e">> >>, title_lower)
        THEN 20
        ELSE 0

\* the double that `score += base; score += keyword_matches * 0.2;
\* score += bonus` leaves in score (base and bonus in hundredths), as an
\* integer that keeps the order of the doubles: the sum in thousandths, one
\* more or one less where the double lies above or below the decimal sum
\* (0.4 + 0.2 and 3 * 0.2 are 0.6000000000000001, 0.6000000000000001 + 0.3
\* is 0.9000000000000001, 0.7 + 0.2 is 0.8999999999999999)
FloatSum(base, keyword_matches, bonus) ==
    10 * (base + keyword_matches * 20 + bonus)
    + CASE base = 0 /\ keyword_matches = 2 /\ bonus = 20 -> 1
        [] base = 0 /\ keyword_matches = 3 /\ bonus = 0 -> 1
        [] base = 0 /\ keyword_matches = 3 /\ bonus = 30 -> 1
        [] base = 50 /\ keyword_matches = 1 /\ bonus = 20 -> -1
        [] OTHER -> 0

\* the score of a window, a double between 0.0 and 1.0, in the integers of
\* FloatSum (thousandths)
_calculate_window_score(window, mapping, content) ==
    LET process_lower == RemoveAll(Lower(window.process_name), <<".","e","x","e">>)
        title_lower == Lower(window.title)
        base == IF AnyIn(mapping.high_priority, process_lower) THEN 80
                ELSE IF AnyIn(mapping.medium_priority, process_lower) THEN 50
                ELSE 0
        keyword_matches == CountIn(mapping.keywords, title_lower)
    IN  MinOf(1000, FloatSum(base, keyword_matches,
                             _get_content_specific_score(window, content)))

\* a sort that reverses the order of entries with equal scores
SortByScoreDesc_unstable(l) ==
    LET Before(i, j) == l[i].score > l[j].score \/ (l[i].score = l[j].score /\ i > j)
        Pos(i) == Cardinality({j \in 1..Len(l) : Before(j, i)}) + 1
    IN  [k \in 1..Len(l) |-> l[CHOOSE i \in 1..Len(l) : Pos(i) = k]]

\* list.sort(key=score, reverse=True): a stable sort, entries with equal
\* scores keep their order
SortByScoreDesc(l) ==
    LET Before(i, j) == l[i].score > l[j].score \/ (l[i].score = l[j].score /\ i < j)
        Pos(i) == Cardinality({j \in 1..Len(l) : Before(j, i)}) + 1
    IN  [k \in 1..Len(l) |-> l[CHOOSE i \in 1..Len(l) : Pos(i) = k]]

\* the entries of l at the indices I, in the order of l
PickSeq(l, I) ==
    LET Nth(k) == CHOOSE i \in I : Cardinality({j \in I : j < i}) = k - 1
    IN  [k \in 1..Cardinality(I) |-> l[Nth(k)]]

\* l[:n]
Take(l, n) == SubSeq(l, 1, MinOf(n, Len(l)))

\* a suggestion: the tuple (reason, window, confidence_text); reason is
\* "<tag> -> <process>" or "AI Rank #<rank>", confidence_text is
\* "<priority> (<confidence>)", "Recent" or "Score: <score>"
Suggestion(reason, window, confidence_text) ==
    [reason |-> reason, window |-> window, confidence |-> confidence_text]

\* the scoring loop without `if score > 0`
ScoredWindows_all(windows, mapping, content) ==
    [i \in 1..Len(windows) |->
        [window |-> windows[i],
         score |-> _calculate_window_score(windows[i], mapping, content)]]

\* the scoring loop of _get_suggestions_for_type: the (window, score) pairs
\* of the windows with a positive score, in the order of the windows
ScoredWindows(windows, mapping, content) ==
    PickSeq([i \in 1..Len(windows) |->
                [window |-> windows[i],
                 score |-> _calculate_window_score(windows[i], mapping, content)]],
            {i \in 1..Len(windows) :
                _calculate_window_score(windows[i], mapping, content) > 0})

\* the suggestion tuples with > in place of >= in the priority tests
TypeSuggestions_strict(content_type, confidence, top) ==
    LET Priority(score) == IF score > 800 THEN "High"
                           ELSE IF score > 500 THEN "Medium" ELSE "Low"
    IN  [i \in 1..Len(top) |->
            Suggestion([tag |-> content_type, process |-> top[i].window.process_name],
                       top[i].window,
                       [label |-> Priority(top[i].score), value |-> confidence])]

\* the suggestion tuples made of scored_windows[:3]
TypeSuggestions(content_type, confidence, top) ==
    LET Priority(score) == IF score >= 800 THEN "High"
                           ELSE IF score >= 500 THEN "Medium" ELSE "Low"
    IN  [i \in 1..Len(top) |->
            Suggestion([tag |-> content_type, process |-> top[i].window.process_name],
                       top[i].window,
                       [label |-> Priority(top[i].score), value |-> confidence])]

_get_suggestions_for_type(content_type, confidence, content, windows) ==
    IF content_type \notin DOMAIN content_mappings THEN <<>>
    ELSE TypeSuggestions(content_type, confidence,
             Take(SortByScoreDesc(ScoredWindows(windows, content_mappings[content_type],
                                                content)), 3))

\* _get_recent_windows with the is_minimized test inverted
_get_recent_windows_minimized(windows, exclude) ==
    LET excluded_hwnds == {exclude[i].window.hwnd : i \in 1..Len(exclude)}
        shown == PickSeq(windows, {i \in 1..Len(windows) :
                     windows[i].hwnd \notin excluded_hwnds /\ windows[i].is_minimized})
    IN  [i \in 1..Len(shown) |->
            Suggestion([tag |-> "Recent", process |-> shown[i].process_name],
                       shown[i],
                       [label |-> "Recent", value |-> 0])]

\* _get_recent_windows without the excluded_hwnds test
_get_recent_windows_all(windows, exclude) ==
    LET shown == PickSeq(windows, {i \in 1..Len(windows) : ~windows[i].is_minimized})
    IN  [i \in 1..Len(shown) |->
            Suggestion([tag |-> "Recent", process |-> shown[i].process_name],
                       shown[i],
                       [label |-> "Recent", value |-> 0])]

_get_recent_windows(windows, exclude) ==
    LET excluded_hwnds == {exclude[i].window.hwnd : i \in 1..Len(exclude)}
        shown == PickSeq(windows, {i \in 1..Len(windows) :
                     windows[i].hwnd \notin excluded_hwnds /\ ~windows[i].is_minimized})
    IN  [i \in 1..Len(shown) |->
            Suggestion([tag |-> "Recent", process |-> shown[i].process_name],
                       shown[i],
                       [label |-> "Recent", value |-> 0])]

\* the suggestions of the classified content's category
PrimarySuggestions(c, clipboard_content, available_windows) ==
    _get_suggestions_for_type(c.type, c.conf, clipboard_content, available_windows)

\* the tail of get_suggestions with the recent windows ahead of the
\* primary suggestions
WithRecent_first(primary, available_windows) ==
    LET suggestions == IF Len(primary) < 3
                       THEN Take(_get_recent_windows(available_windows, primary),
                                 3 - Len(primary)) \o primary
                       ELSE primary
    IN  IF Len(suggestions) > 0 THEN SomeList(Take(suggestions, 3)) ELSE NoneList

\* the tail of get_suggestions: recent windows fill the list up to three,
\* `suggestions[:3] if suggestions else None`
WithRecent(primary, available_windows) ==
    LET suggestions == IF Len(primary) < 3
                       THEN primary \o Take(_get_recent_windows(available_windows, primary),
                                            3 - Len(primary))
                       ELSE primary
    IN  IF Len(suggestions) > 0 THEN SomeList(Take(suggestions, 3)) ELSE NoneList

\* RuleBasedSuggestionEngine.get_suggestions
rule_get_suggestions(clipboard_content, available_windows) ==
    IF Len(available_windows) = 0 THEN NoneList
    ELSE WithRecent(PrimarySuggestions(classify_content(clipboard_content),
                                       clipboard_content, available_windows),
                    available_windows)

---------------------------------------------------------------------------
(* llm.py: LLMSuggestionEngine                                             *)

\* what run_inference can do with a query: raise, or return a reply
BackendRaises == <<"raise">>

\* _query_llm, after the is_initialized check: an exception of the backend
\* or an empty reply gives None, any other reply is stripped
_query_llm(outcome) ==
    IF outcome = BackendRaises THEN NoneStr
    ELSE IF Len(outcome) = 0 THEN NoneStr
    ELSE Strip(outcome)

\* an exception of the backend that the classification step does not catch
_classify_content_raises_uncaught(outcome) == outcome = BackendRaises

\* whether an exception of the backend leaves _classify_content: never,
\* _query_llm and _classify_content both catch Exception
_classify_content_raises(outcome) == FALSE

\* an exception of the backend that the scoring step does not catch
_score_window_raises_uncaught(outcome) == outcome = BackendRaises

\* whether an exception of the backend leaves _score_window: never,
\* _query_llm and _score_window both catch Exception
_score_window_raises(outcome) == FALSE

\* type_keywords of _classify_content, in the order of the dict
type_keywords ==
    << [keyword |-> <<"c","o","d","e">>, type |-> "CODE"],
       [keyword |-> <<"w","e","b">>, type |-> "WEB"],
       [keyword |-> <<"u","r","l">>, type |-> "WEB"],
       [keyword |-> <<"e","m","a","i","l">>, type |-> "EMAIL"],
       [keyword |-> <<"f","i","l","e">>, type |-> "FILE"],
       [keyword |-> <<"d","a","t","a">>, type |-> "DATA"],
       [keyword |-> <<"p","a","s","s","w","o","r","d">>, type |-> "PASSWORD"],
       [keyword |-> <<"t","e","x","t">>, type |-> "TEXT"] >>

\* the threshold test with > in place of >=
RuleConfident_strict(clipboard_content) == classify_content(clipboard_content).conf > 80

\* the threshold of _classify_content from which no query is sent
RuleConfident(clipboard_content) == classify_content(clipboard_content).conf >= 80

\* _classify_content for an ambiguous content, given what the backend did
\* with the classification query
_classify_content(clipboard_content, outcome) ==
    LET rule_type == classify_content(clipboard_content).type
        response == _query_llm(outcome)
        response_lower == Strip(Lower(response))
        hits == {k \in 1..Len(type_keywords) :
                    Contains(response_lower, type_keywords[k].keyword)}
    IN  IF response # NoneStr /\ Len(response) > 0 /\ hits # {}
        THEN type_keywords[SetMin(hits)].type
        ELSE rule_type

\* re.sub(open + r'.*?' + close, '', s, flags=re.DOTALL), open one of opens
RECURSIVE RemoveSpans(_, _, _)
RemoveSpans(s, opens, close) ==
    IF Len(s) = 0 THEN <<>>
    ELSE
        LET at == {k \in 1..Len(opens) : MatchAt(s, opens[k], 1)}
            from == Len(opens[SetMin(at)]) + 1
            ends == {j \in from..Len(s) : MatchAt(s, close, j)}
        IN  IF at # {} /\ ends # {}
            THEN RemoveSpans(SubSeq(s, SetMin(ends) + Len(close), Len(s)), opens, close)
            ELSE <<s[1]>> \o RemoveSpans(Tail(s), opens, close)

\* re.sub(r'</?think>', '', s)
RECURSIVE RemoveTags(_)
RemoveTags(s) ==
    IF Len(s) = 0 THEN <<>>
    ELSE IF MatchAt(s, <<"<","t","h","i","n","k",">">>, 1) THEN RemoveTags(SubSeq(s, 8, Len(s)))
    ELSE IF MatchAt(s, <<"<","/","t","h","i","n","k",">">>, 1) THEN RemoveTags(SubSeq(s, 9, Len(s)))
    ELSE <<s[1]>> \o RemoveTags(Tail(s))

\* re.sub(r'[/-]+', ' ', s): every run of slashes and dashes becomes one space
FormatRuns(s) ==
    LET IsFmt(c) == c \in {"/", "-"}
        keep == {i \in 1..Len(s) : ~IsFmt(s[i]) \/ i = 1 \/ ~IsFmt(s[i - 1])}
        kept == PickSeq(s, keep)
    IN  [i \in 1..Len(kept) |-> IF IsFmt(kept[i]) THEN " " ELSE kept[i]]

\* the cleaning steps of _score_window
CleanResponse(response) ==
    LET a == RemoveSpans(Strip(response), << <<"<","/","t","h","i","n","k",">">> >>, <<"<","t","h","i","n","k",">">>)
        b == RemoveSpans(a, << <<"<","t","h","i","n","k",">">>, <<"<","/","t","h","i","n","k",">">> >>, <<"<","/","t","h","i","n","k",">">>)
    IN  Strip(FormatRuns(RemoveTags(b)))

DigitValue(c) == (CHOOSE i \in 1..10 : Digits[i] = c) - 1

IsScoreDigit(c) == c \in {"0", "1", "2", "3", "4", "5"}

\* a match of r'[0-5](?:\.[0-9]+)?' that starts at index i of s: its last
\* index, and float() of it in hundredths (fraction digits after the second
\* are dropped from the value, not from the comparison with 5)
NumberEnd(s, i) ==
    LET nondigit == {j \in (i + 2)..Len(s) : ~IsDigit(s[j])}
        last == IF nondigit = {} THEN Len(s) ELSE SetMin(nondigit) - 1
    IN  IF i + 2 <= Len(s) /\ s[i + 1] = "." /\ IsDigit(s[i + 2]) THEN last ELSE i

NumberValue(s, i) ==
    LET e == NumberEnd(s, i)
        d1 == IF e >= i + 2 THEN DigitValue(s[i + 2]) ELSE 0
        d2 == IF e >= i + 3 THEN DigitValue(s[i + 3]) ELSE 0
    IN  DigitValue(s[i]) * 100 + d1 * 10 + d2

\* the range test left out: every match counts
NumberValid_any(s, i) == TRUE

\* 0 <= float(match) <= 5
NumberValid(s, i) ==
    \/ DigitValue(s[i]) < 5
    \/ \A j \in (i + 2)..NumberEnd(s, i) : s[j] = "0"

\* the start indices of the matches re.findall(r'([0-5](?:\.[0-9]+)?)', s)
\* returns, scanning from index i
RECURSIVE FindScores(_, _)
FindScores(s, i) ==
    IF i > Len(s) THEN {}
    ELSE IF IsScoreDigit(s[i]) THEN {i} \cup FindScores(s, NumberEnd(s, i) + 1)
    ELSE FindScores(s, i + 1)

\* group 1 of re.search(r'(?:okay|sure|yes|alright)[,\s]*([0-5](?:\.[0-9])?)', s)
\* in hundredths, or NoScore when there is no match
ConversationalScore(s) ==
    LET leads == << <<"o","k","a","y">>, <<"s","u","r","e">>, <<"y","e","s">>, <<"a","l","r","i","g","h","t">> >>
        NumAfter(j) ==
            LET skip == {k \in j..Len(s) : ~(s[k] = "," \/ IsSpace(s[k]))}
            IN  IF skip = {} THEN 0 ELSE SetMin(skip)
        hits == {p \in (1..Len(s)) \X (1..Len(leads)) :
                    /\ MatchAt(s, leads[p[2]], p[1])
                    /\ NumAfter(p[1] + Len(leads[p[2]])) > 0
                    /\ IsScoreDigit(s[NumAfter(p[1] + Len(leads[p[2]]))])}
        start == SetMin({p[1] : p \in hits})
        lead == SetMin({p[2] : p \in {q \in hits : q[1] = start}})
        n == NumAfter(start + Len(leads[lead]))
        d1 == IF n + 2 <= Len(s) /\ s[n + 1] = "." /\ IsDigit(s[n + 2])
              THEN DigitValue(s[n + 2]) ELSE 0
    IN  IF hits = {} THEN NoScore ELSE DigitValue(s[n]) * 100 + d1 * 10

\* rating_words of _score_window, in the order of the dict
rating_words ==
    << [word |-> <<"p","e","r","f","e","c","t">>, score |-> 5], [word |-> <<"e","x","c","e","l","l","e","n","t">>, score |-> 5],
       [word |-> <<"g","r","e","a","t">>, score |-> 4], [word |-> <<"g","o","o","d">>, score |-> 3],
       [word |-> <<"d","e","c","e","n","t">>, score |-> 3], [word |-> <<"f","a","i","r">>, score |-> 2],
       [word |-> <<"p","o","o","r">>, score |-> 2], [word |-> <<"b","a","d">>, score |-> 1],
       [word |-> <<"t","e","r","r","i","b","l","e">>, score |-> 1], [word |-> <<"a","w","f","u","l">>, score |-> 0],
       [word |-> <<"n","o","n","e">>, score |-> 0] >>

\* score / 5.0 of a score in hundredths, in thousandths, without the bound
Normalize_unclamped(score) == 2 * score

\* min(1.0, score / 5.0) of a score in hundredths, in thousandths
Normalize(score) == MinOf(1000, 2 * score)

\* _score_window with the numeric steps ahead of the yes/no step
_score_window_numbers_first(response) ==
    IF response = NoneStr \/ Len(Strip(response)) = 0 THEN NoScore
    ELSE
        LET response_clean == CleanResponse(response)
            lower == Lower(response_clean)
            scores == FindScores(response_clean, 1)
            valid_scores == {NumberValue(response_clean, i) :
                                i \in {j \in scores : NumberValid(response_clean, j)}}
            conversational == ConversationalScore(lower)
            words == {k \in 1..Len(rating_words) : Contains(lower, rating_words[k].word)}
        IN  IF Len(response_clean) = 0 THEN NoScore
            ELSE IF Contains(response_clean, <<"1","2","3","4","5">>) THEN 1000
            ELSE IF valid_scores # {} THEN MinOf(1000, 2 * SetMax(valid_scores))
            ELSE IF Contains(lower, <<"y","e","s">>) THEN 800
            ELSE IF Contains(lower, <<"n","o">>) THEN 200
            ELSE IF conversational # NoScore THEN MinOf(1000, 2 * conversational)
            ELSE IF words # {} THEN rating_words[SetMin(words)].score * 200
            ELSE NoScore

\* _score_window from the reply of _query_llm on: the score in thousandths,
\* or NoScore for None.  min(1.0, x / 5.0) of x in hundredths is
\* min(1000, 2 * x) in thousandths.
_score_window(response) ==
    IF response = NoneStr \/ Len(Strip(response)) = 0 THEN NoScore
    ELSE
        LET response_clean == CleanResponse(response)
            lower == Lower(response_clean)
            scores == FindScores(response_clean, 1)
            valid_scores == {NumberValue(response_clean, i) :
                                i \in {j \in scores : NumberValid(response_clean, j)}}
            conversational == ConversationalScore(lower)
            words == {k \in 1..Len(rating_words) : Contains(lower, rating_words[k].word)}
        IN  IF Len(response_clean) = 0 THEN NoScore
            ELSE IF Contains(lower, <<"y","e","s">>) THEN 800
            ELSE IF Contains(lower, <<"n","o">>) THEN 200
            ELSE IF Contains(response_clean, <<"1","2","3","4","5">>) THEN 1000
            ELSE IF valid_scores # {} THEN Normalize(SetMax(valid_scores))
            ELSE IF conversational # NoScore THEN Normalize(conversational)
            ELSE IF words # {} THEN rating_words[SetMin(words)].score * 200
            ELSE NoScore

\* f"{score:.2f}" of a score in thousandths: the score in hundredths
Format2(score) == (score + 5) \div 10

\* available_windows[:5]: the number of windows the LLM engine scores
MaxScored == 5

\* the fewest scored windows the LLM engine makes a ranking of
MinScored == 2

\* the loop over all the windows
FirstWindows_all(available_windows) == available_windows

\* available_windows[:5]
FirstWindows(available_windows) == Take(available_windows, MaxScored)

\* llm_rank with a ranking made of a single scored window
llm_rank_single(window_scores) ==
    IF Len(window_scores) < 1 THEN NoneList
    ELSE
        LET top == Take(SortByScoreDesc(window_scores), 3)
        IN  SomeList([i \in 1..Len(top) |->
                Suggestion([tag |-> "AI Rank", rank |-> i],
                           top[i].window,
                           [label |-> "Score", value |-> Format2(top[i].score)])])

\* LLMSuggestionEngine.get_suggestions from the scored windows on (steps 2
\* and 3): None below MinScored scores, else the three best ranked
llm_rank(window_scores) ==
    IF Len(window_scores) < MinScored THEN NoneList
    ELSE
        LET top == Take(SortByScoreDesc(window_scores), 3)
        IN  SomeList([i \in 1..Len(top) |->
                Suggestion([tag |-> "AI Rank", rank |-> i],
                           top[i].window,
                           [label |-> "Score", value |-> Format2(top[i].score)])])

---------------------------------------------------------------------------
(* controller.py: MultitaskController.get_suggestions_for_content          *)

\* `if not suggestions`: None and the empty list are both false
Truthy(r) == ~r.none /\ Len(r.list) > 0

\* `if suggestions: ... else: suggestions = []`: None becomes the empty list
OrEmpty(r) == IF Truthy(r) THEN r.list ELSE <<>>

\* MultitaskController._try_rule_suggestions
_try_rule_suggestions(content, available_windows) ==
    OrEmpty(rule_get_suggestions(content, available_windows))

---------------------------------------------------------------------------
(* The inputs of the model                                                 *)

\* clipboard contents
Contents ==
    { <<>>, <<" ","\n">>, <<"h","t","t","p","s",":","/","/","a",".","i","o","/","x">>, <<"/","x",".","p","y">>, <<"P","w","1","!">>, <<"h","i"," ","a","l","l">> }

\* what the backend does with the classification query
ClassifyOutcomes == { <<"w","e","b">>, <<"h","m","m">>, <<>>, BackendRaises }

\* what the backend does with a scoring query
ScoreOutcomes == { <<"4">>, <<"2">>, <<"h","m","m">>, <<" ">>, BackendRaises }

---------------------------------------------------------------------------
(* State                                                                   *)

VARIABLES
    llm_engine,         \* "None" (enable_llm false), "failed" (is_initialized
                        \* false) or "ready"
    pc,                 \* where get_suggestions_for_content is: "idle",
                        \* "classify" and "score" (waiting for the backend),
                        \* "returned"
    content,            \* the argument of the current invocation
    available_windows,  \* what get_filtered_windows returned
    content_type,       \* the result of _classify_content
    window_scores,      \* the list get_suggestions collects
    suggestions,        \* what the last invocation returned
    calls,              \* which collaborators the invocation has called
    queries,            \* the queries the invocation has sent: what the backend
                        \* did with each classification query, the windows of
                        \* the scoring queries, what the backend did with the
                        \* last of them
    llm_suggestions,    \* what LLMSuggestionEngine.get_suggestions returned
    rule_suggestions,   \* what RuleBasedSuggestionEngine.get_suggestions returned
    text,               \* a text handed to ContentClassifier.classify_content
    classification,     \* the (type, confidence) it returned
    response,           \* a reply of the backend to a scoring query
    normalized,         \* what _score_window made of it: a score, NoScore for
                        \* None, or NotParsed before the call
    is_monitoring,      \* MultitaskController.is_monitoring
    monitor_thread,     \* MultitaskController.monitor_thread: 0 for None, or
                        \* the thread
    thread,             \* where each monitor thread is in _monitor_clipboard
    caller,             \* where the thread calling start_monitoring and
                        \* stop_monitoring is
    clipboard,          \* what pyperclip.paste() returns
    last_clipboard,     \* MultitaskController.last_clipboard
    current_clipboard   \* the local current_clipboard of each monitor thread

controller_vars == << llm_engine, pc, content, available_windows, content_type,
                      window_scores, suggestions, calls, queries, llm_suggestions,
                      rule_suggestions >>

classifier_vars == << text, classification >>

parser_vars == << response, normalized >>

monitor_vars == << is_monitoring, monitor_thread, thread, caller, clipboard,
                   last_clipboard, current_clipboard >>

vars == << controller_vars, classifier_vars, parser_vars, monitor_vars >>

NoCalls == [windows |-> FALSE, llm |-> FALSE, rule |-> 0]

NoQueries == [classify |-> <<>>, score |-> <<>>, last |-> <<>>]

\* the controller after __init__
ControllerInit ==
    /\ llm_engine \in {"None", "failed", "ready"}
    /\ pc = "idle"
    /\ content = <<>>
    /\ available_windows = <<>>
    /\ content_type = ""
    /\ window_scores = <<>>
    /\ suggestions = <<>>
    /\ calls = NoCalls
    /\ queries = NoQueries
    /\ llm_suggestions = NoneList
    /\ rule_suggestions = NoneList

\* the score parser before its call
NotParsed == -2

\* the classifier before its call
Unclassified == Classified("", 0)

\* no text is under classification
ClassifierIdle == text = <<>> /\ classification = Unclassified

\* no reply is being parsed
ParserIdle == response = <<>> /\ normalized = NotParsed

\* the monitoring state after __init__: is_monitoring False, monitor_thread
\* None, last_clipboard ""
MonitorInit ==
    /\ is_monitoring = FALSE
    /\ monitor_thread = 0
    /\ thread = [t \in 1..MaxThreads |-> "unborn"]
    /\ caller = "idle"
    /\ clipboard = <<>>
    /\ last_clipboard = <<>>
    /\ current_clipboard = [t \in 1..MaxThreads |-> <<>>]

Init == ControllerInit /\ ClassifierIdle /\ ParserIdle /\ MonitorInit

\* is_ready() of an engine that exists
LLMReady == llm_engine = "ready"

\* the emptiness test without strip()
IsBlank_unstripped(c) == Len(c) = 0

\* `not content.strip()`
IsBlank(c) == Len(Strip(c)) = 0

\* `return suggestions` of get_suggestions_for_content
Returns(list, called, llm_result, rule_result) ==
    /\ suggestions' = list
    /\ calls' = called
    /\ llm_suggestions' = llm_result
    /\ rule_suggestions' = rule_result
    /\ pc' = "returned"

\* a controller that appends the rule engine's list to the LLM engine's
Arbitrate_merged(llm_result, c, ws, called) ==
    Returns(llm_result.list \o _try_rule_suggestions(c, ws), [called EXCEPT !.rule = @ + 1],
            llm_result, rule_get_suggestions(c, ws))

\* the tail of get_suggestions_for_content once _try_llm_suggestions has
\* its answer: fall back to the rule engine if the answer is not truthy
Arbitrate(llm_result, c, ws, called) ==
    IF Truthy(llm_result)
    THEN Returns(llm_result.list, called, llm_result, NoneList)
    ELSE Returns(_try_rule_suggestions(c, ws), [called EXCEPT !.rule = @ + 1],
                 llm_result, rule_get_suggestions(c, ws))

\* get_suggestions_for_content without `if not available_windows: return []`
Call_unchecked(c) ==
    /\ pc = "idle"
    /\ content' = c
    /\ window_scores' = <<>>
    /\ queries' = NoQueries
    /\ UNCHANGED << llm_engine, classifier_vars, parser_vars, monitor_vars >>
    /\ IF IsBlank(c)
       THEN /\ available_windows' = <<>>
            /\ content_type' = ""
            /\ Returns(<<>>, NoCalls, NoneList, NoneList)
       ELSE \E ws \in get_filtered_windows :
            /\ available_windows' = ws
            /\ IF ~LLMReady \/ Len(ws) = 0
               THEN /\ content_type' = ""
                    /\ Arbitrate(NoneList, c, ws,
                                 [NoCalls EXCEPT !.windows = TRUE, !.llm = LLMReady])
               ELSE /\ calls' = [NoCalls EXCEPT !.windows = TRUE, !.llm = TRUE]
                    /\ suggestions' = <<>>
                    /\ llm_suggestions' = NoneList
                    /\ rule_suggestions' = NoneList
                    /\ IF RuleConfident(c)
                       THEN /\ content_type' = classify_content(c).type
                            /\ pc' = "score"
                       ELSE /\ content_type' = ""
                            /\ pc' = "classify"

\* get_suggestions_for_content(c) up to its return or its first query
Call(c) ==
    /\ pc = "idle"
    /\ content' = c
    /\ window_scores' = <<>>
    /\ queries' = NoQueries
    /\ UNCHANGED << llm_engine, classifier_vars, parser_vars, monitor_vars >>
    /\ IF IsBlank(c)
       THEN \* `if not content.strip(): return []`
            /\ available_windows' = <<>>
            /\ content_type' = ""
            /\ Returns(<<>>, NoCalls, NoneList, NoneList)
       ELSE \E ws \in get_filtered_windows :
            /\ available_windows' = ws
            /\ IF Len(ws) = 0
               THEN \* `if not available_windows: return []`
                    /\ content_type' = ""
                    /\ Returns(<<>>, [NoCalls EXCEPT !.windows = TRUE], NoneList, NoneList)
               ELSE IF ~LLMReady
               THEN \* _try_llm_suggestions returns None without the engine
                    /\ content_type' = ""
                    /\ Arbitrate(NoneList, c, ws, [NoCalls EXCEPT !.windows = TRUE])
               ELSE \* LLMSuggestionEngine.get_suggestions, step 1
                    /\ calls' = [NoCalls EXCEPT !.windows = TRUE, !.llm = TRUE]
                    /\ suggestions' = <<>>
                    /\ llm_suggestions' = NoneList
                    /\ rule_suggestions' = NoneList
                    /\ IF RuleConfident(c)
                       THEN /\ content_type' = classify_content(c).type
                            /\ pc' = "score"
                       ELSE /\ content_type' = ""
                            /\ pc' = "classify"

\* the backend answers the classification query of _classify_content
ClassifyReply(outcome) ==
    /\ pc = "classify"
    /\ queries' = [queries EXCEPT !.classify = Append(@, outcome)]
    /\ IF _classify_content_raises(outcome)
       THEN \* `except Exception` of get_suggestions: return None
            /\ Arbitrate(NoneList, content, available_windows, calls)
            /\ UNCHANGED content_type
       ELSE /\ content_type' = _classify_content(content, outcome)
            /\ pc' = "score"
            /\ UNCHANGED << suggestions, calls, llm_suggestions, rule_suggestions >>
    /\ UNCHANGED << llm_engine, content, available_windows, window_scores,
                 classifier_vars, parser_vars, monitor_vars >>

\* the backend answers the scoring query for the next window; after the
\* last of the first five windows get_suggestions and the controller
\* run to the return
ScoreReply(outcome) ==
    LET i == Len(queries.score) + 1
        window == available_windows[i]
        score == _score_window(_query_llm(outcome))
        scored == IF score # NoScore
                  THEN Append(window_scores, [window |-> window, score |-> score])
                  ELSE window_scores
    IN  /\ pc = "score"
        /\ queries' = [queries EXCEPT !.score = Append(@, window.hwnd), !.last = outcome]
        /\ IF _score_window_raises(outcome)
           THEN \* `except Exception` of get_suggestions: return None
                /\ UNCHANGED window_scores
                /\ Arbitrate(NoneList, content, available_windows, calls)
           ELSE /\ window_scores' = scored
                /\ IF i = Len(FirstWindows(available_windows))
                   THEN Arbitrate(llm_rank(scored), content, available_windows, calls)
                   ELSE UNCHANGED << pc, suggestions, calls, llm_suggestions,
                                     rule_suggestions >>
        /\ UNCHANGED << llm_engine, content, available_windows, content_type,
                     classifier_vars, parser_vars, monitor_vars >>

\* the caller takes the list; the next invocation starts afresh
Return ==
    /\ pc = "returned"
    /\ pc' = "idle"
    /\ content' = <<>>
    /\ available_windows' = <<>>
    /\ content_type' = ""
    /\ window_scores' = <<>>
    /\ suggestions' = <<>>
    /\ calls' = NoCalls
    /\ queries' = NoQueries
    /\ llm_suggestions' = NoneList
    /\ rule_suggestions' = NoneList
    /\ UNCHANGED << llm_engine, classifier_vars, parser_vars, monitor_vars >>

Next ==
    \/ \E c \in Contents : Call(c)
    \/ \E outcome \in ClassifyOutcomes : ClassifyReply(outcome)
    \/ \E outcome \in ScoreOutcomes : ScoreReply(outcome)
    \/ Return

Spec == Init /\ [][Next]_vars


---------------------------------------------------------------------------
(* rule.py: ContentClassifier.classify_content on its own                  *)

\* the concatenation of the strings of a list
RECURSIVE Join(_)
Join(l) == IF l = <<>> THEN <<>> ELSE Head(l) \o Join(Tail(l))

\* the strings made of at most n pieces of F, in every order
Compose(F, n) ==
    {Join([i \in 1..Len(s) |-> F[s[i]]]) :
        s \in UNION {[1..k -> 1..Len(F)] : k \in 0..n}}

\* pieces of clipboard texts: a URL scheme, the parts of an e-mail address,
\* a function header, separators, a file name, two e-mail markers, four
\* lines of a table, digits
TextFragments ==
    << <<"h","t","t","p","s",":","/","/">>, <<"u","s","e","r">>, <<"@">>, <<"e","x","a","m","p","l","e",".","c","o","m">>, <<"d","e","f"," ","f","o","o","(",")",":">>, <<" ">>, <<"/">>,
       <<"\\">>, <<"x",".","p","y">>, <<"h","i"," ","d","e","a","r"," ">>, <<"1",",","2","\n","3",",","4","\n","5",",","6","\n","7",",","8">>, <<"1","2","3","4","5","6","7","8","9","0","1">> >>

\* the texts classify_content is called with
Texts == Compose(TextFragments, MaxFragments)

ClassifierInit ==
    /\ ControllerInit /\ llm_engine = "None"
    /\ ParserIdle
    /\ MonitorInit
    /\ text \in Texts
    /\ classification = Unclassified

\* content_type, confidence = self.classifier.classify_content(text)
Classify ==
    /\ classification = Unclassified
    /\ classification' = classify_content(text)
    /\ UNCHANGED << text, controller_vars, parser_vars, monitor_vars >>

ClassifierNext == Classify

ClassifierSpec == ClassifierInit /\ [][ClassifierNext]_vars

---------------------------------------------------------------------------
(* llm.py: the parsing of a reply in LLMSuggestionEngine._score_window     *)

\* pieces of replies of the backend: yes and no, rating words, numbers, a
\* rating out of five, the think tags, a space
ReplyFragments ==
    << <<"y","e","s">>, <<"Y","E","S">>, <<"n","o">>, <<"n","o","n","e">>, <<"g","o","o","d">>, <<"p","e","r","f","e","c","t">>, <<"4">>, <<"7">>, <<"/","5">>,
       <<"s","c","o","r","e",":"," ">>, <<"1","2","3","4","5">>, <<"<","t","h","i","n","k",">">>, <<"<","/","t","h","i","n","k",">">>, <<" ">> >>

\* the replies _query_llm gets from the backend
Replies == Compose(ReplyFragments, MaxFragments)

ParserInit ==
    /\ ControllerInit /\ llm_engine = "ready"
    /\ ClassifierIdle
    /\ MonitorInit
    /\ response \in Replies
    /\ normalized = NotParsed

\* _score_window from `response = self._query_llm(...)` to its return
Parse ==
    /\ normalized = NotParsed
    /\ normalized' = _score_window(_query_llm(response))
    /\ UNCHANGED << response, controller_vars, classifier_vars, monitor_vars >>

ParserNext == Parse

ParserSpec == ParserInit /\ [][ParserNext]_vars

\* pieces of replies that rate with a number: whole and decimal numbers up
\* to 5, numbers above 5, a lead-in, a rating word, the formatting dash
NumberFragments ==
    << <<"4">>, <<"2",".","5"," ">>, <<"5",".","9">>, <<"7">>, <<"0">>, <<"1","2","3","4","5">>, <<"s","u","r","e"," ">>, <<"g","o","o","d">>, <<"n","o">>,
       <<"-">>, <<"<","t","h","i","n","k",">">>, <<"<","/","t","h","i","n","k",">">> >>

\* replies of the backend that rate with a number
NumericReplies == Compose(NumberFragments, MaxFragments)

NumericParserInit ==
    /\ ControllerInit /\ llm_engine = "ready"
    /\ ClassifierIdle
    /\ MonitorInit
    /\ response \in NumericReplies
    /\ normalized = NotParsed

NumericParserSpec == NumericParserInit /\ [][ParserNext]_vars
---------------------------------------------------------------------------
(* controller.py: start_monitoring, stop_monitoring, _monitor_clipboard    *)

\* the monitor threads start_monitoring can create
Threads == 1..MaxThreads

\* a thread that has been started and has not left _monitor_clipboard
Alive(t) == thread[t] \notin {"unborn", "dead"}

\* what the user copies
ClipboardTexts == { <<" ","\n">>, <<"/","x",".","p","y">>, <<"h","i"," ","a","l","l">> }

MonitorSpecInit ==
    /\ ControllerInit /\ llm_engine = "ready"
    /\ ClassifierIdle
    /\ ParserIdle
    /\ MonitorInit

\* start_monitoring: nothing if is_monitoring, else a new thread is started
\* and kept in monitor_thread
start_monitoring ==
    /\ caller = "idle"
    /\ IF is_monitoring
       THEN UNCHANGED << is_monitoring, monitor_thread, thread >>
       ELSE /\ \E t \in Threads : thread[t] = "unborn"
            /\ LET t == SetMin({u \in Threads : thread[u] = "unborn"})
               IN  /\ is_monitoring' = TRUE
                   /\ monitor_thread' = t
                   /\ thread' = [thread EXCEPT ![t] = "while"]
    /\ UNCHANGED << caller, clipboard, last_clipboard, current_clipboard,
                    controller_vars, classifier_vars, parser_vars >>

\* stop_monitoring up to join(timeout=THREAD_JOIN_TIMEOUT)
stop_monitoring ==
    /\ caller = "idle"
    /\ is_monitoring' = FALSE
    /\ caller' = IF monitor_thread # 0 THEN "join" ELSE "idle"
    /\ UNCHANGED << monitor_thread, thread, clipboard, last_clipboard,
                    current_clipboard, controller_vars, classifier_vars, parser_vars >>

\* join returns because the thread has ended
JoinReturns ==
    /\ caller = "join"
    /\ thread[monitor_thread] = "dead"
    /\ caller' = "idle"
    /\ UNCHANGED << is_monitoring, monitor_thread, thread, clipboard, last_clipboard,
                    current_clipboard, controller_vars, classifier_vars, parser_vars >>

\* join returns after THREAD_JOIN_TIMEOUT with the thread still inside
\* get_suggestions_for_content, which has no bound on its duration; a
\* thread that is polling leaves its loop within CLIPBOARD_CHECK_INTERVAL
JoinTimesOut ==
    /\ caller = "join"
    /\ thread[monitor_thread] = "handle"
    /\ caller' = "idle"
    /\ UNCHANGED << is_monitoring, monitor_thread, thread, clipboard, last_clipboard,
                    current_clipboard, controller_vars, classifier_vars, parser_vars >>

\* the user copies a text
Copy(c) ==
    /\ clipboard # c
    /\ clipboard' = c
    /\ UNCHANGED << is_monitoring, monitor_thread, thread, caller, last_clipboard,
                    current_clipboard, controller_vars, classifier_vars, parser_vars >>

\* a loop that never tests is_monitoring
LoopTest_forever(t) ==
    /\ thread[t] = "while"
    /\ thread' = [thread EXCEPT ![t] = "paste"]
    /\ UNCHANGED << is_monitoring, monitor_thread, caller, clipboard, last_clipboard,
                    current_clipboard, controller_vars, classifier_vars, parser_vars >>

\* `while self.is_monitoring:` in thread t
LoopTest(t) ==
    /\ thread[t] = "while"
    /\ thread' = [thread EXCEPT ![t] = IF is_monitoring THEN "paste" ELSE "dead"]
    /\ UNCHANGED << is_monitoring, monitor_thread, caller, clipboard, last_clipboard,
                    current_clipboard, controller_vars, classifier_vars, parser_vars >>

\* `current_clipboard = pyperclip.paste()` in thread t
Paste(t) ==
    /\ thread[t] = "paste"
    /\ current_clipboard' = [current_clipboard EXCEPT ![t] = clipboard]
    /\ thread' = [thread EXCEPT ![t] = "compare"]
    /\ UNCHANGED << is_monitoring, monitor_thread, caller, clipboard, last_clipboard,
                    controller_vars, classifier_vars, parser_vars >>

\* pyperclip.paste() raises in thread t: the except branch logs and sleeps
PasteRaises(t) ==
    /\ thread[t] = "paste"
    /\ thread' = [thread EXCEPT ![t] = "sleep"]
    /\ UNCHANGED << is_monitoring, monitor_thread, caller, clipboard, last_clipboard,
                    current_clipboard, controller_vars, classifier_vars, parser_vars >>

\* `if self._clipboard_changed(current_clipboard):` in thread t; the local
\* is dead once the test fails
_clipboard_changed(t) ==
    /\ thread[t] = "compare"
    /\ IF current_clipboard[t] # last_clipboard /\ Len(Strip(current_clipboard[t])) > 0
       THEN /\ thread' = [thread EXCEPT ![t] = "changed"]
            /\ UNCHANGED current_clipboard
       ELSE /\ thread' = [thread EXCEPT ![t] = "sleep"]
            /\ current_clipboard' = [current_clipboard EXCEPT ![t] = <<>>]
    /\ UNCHANGED << is_monitoring, monitor_thread, caller, clipboard, last_clipboard,
                    controller_vars, classifier_vars, parser_vars >>

\* _handle_clipboard_change in thread t up to the first callback:
\* `self.last_clipboard = current_clipboard`
_handle_clipboard_change(t) ==
    /\ thread[t] = "changed"
    /\ last_clipboard' = current_clipboard[t]
    /\ thread' = [thread EXCEPT ![t] = "notify"]
    /\ UNCHANGED << is_monitoring, monitor_thread, caller, clipboard,
                    current_clipboard, controller_vars, classifier_vars, parser_vars >>

\* on_clipboard_change(current_clipboard) runs in thread t, then
\* get_suggestions_for_content is called
on_clipboard_change(t) ==
    /\ thread[t] = "notify"
    /\ thread' = [thread EXCEPT ![t] = "handle"]
    /\ UNCHANGED << is_monitoring, monitor_thread, caller, clipboard, last_clipboard,
                    current_clipboard, controller_vars, classifier_vars, parser_vars >>

\* get_suggestions_for_content returns in thread t and current_suggestions
\* is set
Handled(t) ==
    /\ thread[t] = "handle"
    /\ thread' = [thread EXCEPT ![t] = "ready"]
    /\ UNCHANGED << is_monitoring, monitor_thread, caller, clipboard, last_clipboard,
                    current_clipboard, controller_vars, classifier_vars, parser_vars >>

\* on_suggestions_ready(suggestions) runs in thread t;
\* _handle_clipboard_change returns and the local is dead
on_suggestions_ready(t) ==
    /\ thread[t] = "ready"
    /\ thread' = [thread EXCEPT ![t] = "sleep"]
    /\ current_clipboard' = [current_clipboard EXCEPT ![t] = <<>>]
    /\ UNCHANGED << is_monitoring, monitor_thread, caller, clipboard, last_clipboard,
                    controller_vars, classifier_vars, parser_vars >>

\* time.sleep returns in thread t
Wake(t) ==
    /\ thread[t] = "sleep"
    /\ thread' = [thread EXCEPT ![t] = "while"]
    /\ UNCHANGED << is_monitoring, monitor_thread, caller, clipboard, last_clipboard,
                    current_clipboard, controller_vars, classifier_vars, parser_vars >>

\* a step of the monitor thread t
ThreadStep(t) ==
    \/ LoopTest(t)
    \/ Paste(t)
    \/ PasteRaises(t)
    \/ _clipboard_changed(t)
    \/ _handle_clipboard_change(t)
    \/ on_clipboard_change(t)
    \/ Handled(t)
    \/ on_suggestions_ready(t)
    \/ Wake(t)

MonitorNext ==
    \/ start_monitoring
    \/ stop_monitoring
    \/ JoinReturns
    \/ JoinTimesOut
    \/ \E c \in ClipboardTexts : Copy(c)
    \/ \E t \in Threads : ThreadStep(t)

MonitorSpec == MonitorSpecInit /\ [][MonitorNext]_vars

\* the threads the fair runs start
MaxFairThreads == 2

\* start_monitoring in a run of at most MaxFairThreads threads
start_monitoring_bounded ==
    /\ is_monitoring \/ \E t \in 1..MaxFairThreads : thread[t] = "unborn"
    /\ start_monitoring

MonitorFairNext ==
    \/ start_monitoring_bounded
    \/ stop_monitoring
    \/ JoinReturns
    \/ JoinTimesOut
    \/ \E c \in ClipboardTexts : Copy(c)
    \/ \E t \in Threads : ThreadStep(t)

\* the scheduler lets every thread that can take a step take one, and the
\* calls of the clipboard, of the callbacks and of
\* get_suggestions_for_content return
MonitorFairness == \A t \in Threads : WF_vars(ThreadStep(t))

MonitorFairSpec == MonitorSpecInit /\ [][MonitorFairNext]_vars /\ MonitorFairness

---------------------------------------------------------------------------
(* controller.py, rule.py: the rule tier on its own                        *)

\* the most windows get_filtered_windows returns to the rule tier
MaxCandidates == 4

\* windows of user applications, ordered by process name as
\* get_application_windows orders them: browsers with and without keywords
\* in the title, an editor, a file manager, windows that match no table
CandidateWindows ==
    << [title |-> <<"G","i","t","H","u","b"," ","-"," ","f","o","o">>,       process_name |-> <<"c","h","r","o","m","e",".","e","x","e">>,     is_minimized |-> FALSE],
       [title |-> <<"N","e","w","s"," ","-"," ","C","h","r","o","m","e">>,      process_name |-> <<"c","h","r","o","m","e",".","e","x","e">>,     is_minimized |-> TRUE],
       [title |-> <<"x",".","p","y"," ","-"," ","e","d","i","t","o","r">>,      process_name |-> <<"C","o","d","e",".","e","x","e">>,       is_minimized |-> FALSE],
       [title |-> <<"S","h","a","r","e","d"," ","w","e","b"," ","f","o","l","d","e","r">>,  process_name |-> <<"i","e","x","p","l","o","r","e",".","e","x","e">>,   is_minimized |-> FALSE],
       [title |-> <<"O","l","d"," ","w","e","b"," ","b","r","o","w","s","e","r">>,    process_name |-> <<"i","e","x","p","l","o","r","e",".","e","x","e">>,   is_minimized |-> FALSE],
       [title |-> <<"U","n","t","i","t","l","e","d"," ","-"," ","N","o","t","e","p","a","d">>, process_name |-> <<"n","o","t","e","p","a","d",".","e","x","e">>,    is_minimized |-> FALSE],
       [title |-> <<"P","r","o","j","e","c","t"," ","f","o","l","d","e","r"," ","l","i","s","t">>, process_name |-> <<"n","o","t","e","p","a","d",".","e","x","e">>,   is_minimized |-> FALSE],
       [title |-> <<"D","o","c","u","m","e","n","t","s"," ","-"," ","P","a","t","h"," ","F","i","n","d","e","r">>, process_name |-> <<"p","a","t","h","f","i","n","d","e","r",".","e","x","e">>, is_minimized |-> FALSE],
       [title |-> <<"M","o","v","i","e">>,              process_name |-> <<"v","l","c",".","e","x","e">>,        is_minimized |-> TRUE] >>

\* the candidate window with handle h
CandidateAt(h) ==
    WindowInfo(h, CandidateWindows[h].title, CandidateWindows[h].process_name,
               CandidateWindows[h].is_minimized)

\* the candidates with the handles S, in the order of the window directory
RECURSIVE CandidatesOf(_)
CandidatesOf(S) ==
    IF S = {} THEN <<>>
    ELSE <<CandidateAt(SetMin(S))>> \o CandidatesOf(S \ {SetMin(S)})

\* the non-empty lists get_filtered_windows returns to the rule tier
CandidateLists ==
    {CandidatesOf(S) : S \in {T \in SUBSET (1..Len(CandidateWindows)) :
                                 T # {} /\ Cardinality(T) <= MaxCandidates}}

\* non-blank clipboard contents: a URL, a path, a function header, a
\* sentence, a password
RuleContents ==
    { <<"h","t","t","p","s",":","/","/","g","i","t","h","u","b",".","c","o","m","/","f","o","o">>, <<"/","x",".","p","y">>, <<"d","e","f"," ","f","o","o","(",")",":">>, <<"h","i"," ","a","l","l">>, <<"P","w","1","!">> }

\* a controller made with enable_llm=False
RuleTierInit ==
    /\ ControllerInit /\ llm_engine = "None"
    /\ ClassifierIdle
    /\ ParserIdle
    /\ MonitorInit

\* get_suggestions_for_content(c) with the model tier disabled, for a
\* non-blank c and a non-empty ws returned by get_filtered_windows
RuleTierCall(c, ws) ==
    /\ pc = "idle"
    /\ ~LLMReady
    /\ ~IsBlank(c)
    /\ Len(ws) > 0
    /\ content' = c
    /\ available_windows' = ws
    /\ content_type' = ""
    /\ window_scores' = <<>>
    /\ queries' = NoQueries
    /\ Arbitrate(NoneList, c, ws, [NoCalls EXCEPT !.windows = TRUE])
    /\ UNCHANGED << llm_engine, classifier_vars, parser_vars, monitor_vars >>

RuleTierNext ==
    \/ \E c \in RuleContents, ws \in CandidateLists : RuleTierCall(c, ws)
    \/ Return

RuleTierSpec == RuleTierInit /\ [][RuleTierNext]_vars
---------------------------------------------------------------------------
(* Properties                                                              *)

\* the invocation has returned for a content that is not blank
ReturnedNonBlank == pc = "returned" /\ Strip(content) # <<>>

\* min(5, len(available_windows))
FirstFive == IF Len(available_windows) < 5 THEN Len(available_windows) ELSE 5

\* C1: for an empty or whitespace-only content the controller returns the
\* empty list without enumerating the windows, without calling the LLM
\* engine or the rule engine and without sending a query.
C1_BlankContentReturnsEmpty ==
    (pc = "returned" /\ Strip(content) = <<>>) =>
        /\ suggestions = <<>>
        /\ ~calls.windows
        /\ ~calls.llm
        /\ calls.rule = 0
        /\ queries = NoQueries

C1_Witness ==
    /\ pc = "returned"
    /\ content = <<" ","\n">>
    /\ llm_engine = "ready"
    /\ suggestions = <<>>

\* C2 as stated: for a non-blank content and a non-empty window list the
\* rule engine returns at least one suggestion, and the controller's list is
\* empty only when the window list is empty.
C2_RuleTierNeverEmpty ==
    (ReturnedNonBlank /\ Len(available_windows) > 0) =>
        /\ calls.rule > 0 => Truthy(rule_suggestions)
        /\ suggestions # <<>>

\* C2 amended: for a non-blank content and a window list with at least one
\* window that is not minimized, the rule engine returns at least one
\* suggestion and the controller's list is not empty.
C2_RuleTierNonEmptyIfVisible ==
    (ReturnedNonBlank /\ \E i \in 1..Len(available_windows) :
                            ~available_windows[i].is_minimized) =>
        /\ calls.rule > 0 => (~rule_suggestions.none /\ Len(rule_suggestions.list) >= 1)
        /\ Len(suggestions) >= 1

C2_Witness ==
    /\ ReturnedNonBlank
    /\ calls.rule = 1
    /\ \E i \in 1..Len(available_windows) : available_windows[i].is_minimized
    /\ Cardinality({i \in 1..Len(available_windows) :
                       ~available_windows[i].is_minimized}) = 1
    /\ Len(suggestions) = 1
    /\ suggestions[1].reason.tag = "Recent"

\* C3: the list the controller returns, from the LLM engine or from the rule
\* engine, has at most 3 entries and no two of them have the same hwnd.
C3_AtMostThreeDistinct ==
    pc = "returned" =>
        /\ Len(suggestions) <= 3
        /\ \A i, j \in 1..Len(suggestions) :
               i # j => suggestions[i].window.hwnd # suggestions[j].window.hwnd

C3_Witness ==
    /\ pc = "returned"
    /\ calls.rule = 1
    /\ Len(available_windows) >= 4
    /\ Len(suggestions) = 3
    /\ suggestions[1].reason.tag = "WEB"
    /\ suggestions[3].reason.tag = "Recent"

\* C4: for a non-blank content and a non-empty window list the returned list
\* is the LLM engine's list when the engine is ready and returns a ranking,
\* and then the rule engine is not called; it is the rule engine's list (the
\* empty list for None) when the LLM engine is disabled, not ready or returns
\* None, and then the LLM engine's entries are not in it; a list never holds
\* entries of both engines.
C4_StrictFallback ==
    (ReturnedNonBlank /\ Len(available_windows) > 0) =>
        /\ llm_engine # "ready" => ~calls.llm /\ llm_suggestions.none
        /\ llm_engine = "ready" => calls.llm
        /\ (~llm_suggestions.none /\ Len(llm_suggestions.list) > 0) =>
               /\ suggestions = llm_suggestions.list
               /\ calls.rule = 0
        /\ (llm_suggestions.none \/ Len(llm_suggestions.list) = 0) =>
               /\ calls.rule = 1
               /\ suggestions = rule_suggestions.list
               /\ rule_suggestions = rule_get_suggestions(content, available_windows)
        /\ \/ \A i \in 1..Len(suggestions) : suggestions[i].reason.tag = "AI Rank"
           \/ \A i \in 1..Len(suggestions) : suggestions[i].reason.tag # "AI Rank"

C4_Witness ==
    /\ ReturnedNonBlank
    /\ llm_engine = "ready"
    /\ calls.llm
    /\ Len(window_scores) = 1
    /\ llm_suggestions.none
    /\ calls.rule = 1
    /\ Len(suggestions) = 3

\* C5: the LLM engine returns None whenever fewer than 2 of the first 5
\* windows got a score, so also when every query failed; it never returns a
\* ranking of 0 or 1 entries.
C5_InsufficientEvidence ==
    (pc = "returned" /\ calls.llm) =>
        /\ Len(window_scores) < 2 => llm_suggestions.none
        /\ ~llm_suggestions.none => Len(llm_suggestions.list) >= 2

C5_Witness ==
    /\ pc = "returned"
    /\ calls.llm
    /\ Len(queries.score) = 5
    /\ Len(window_scores) = 1
    /\ llm_suggestions.none

\* C6: when at least 2 of the first 5 windows got a score, the LLM engine
\* returns the scored windows by decreasing score, windows with equal scores
\* in the order of the window list, cut to the first 3; entry k has the
\* reason "AI Rank #k" and its own score, to two decimals, as confidence.
C6_RankingOrder ==
    (pc = "returned" /\ calls.llm /\ Len(window_scores) >= 2) =>
        LET L == llm_suggestions.list
            scored == {window_scores[i].window.hwnd : i \in 1..Len(window_scores)}
            S(h) == window_scores[CHOOSE i \in 1..Len(window_scores) :
                                     window_scores[i].window.hwnd = h].score
            P(h) == CHOOSE i \in 1..Len(available_windows) :
                        available_windows[i].hwnd = h
            Better(a, b) == S(a) > S(b) \/ (S(a) = S(b) /\ P(a) < P(b))
            chosen == {L[k].window.hwnd : k \in 1..Len(L)}
        IN  /\ ~llm_suggestions.none
            /\ Len(L) = IF Len(window_scores) < 3 THEN Len(window_scores) ELSE 3
            /\ \A k \in 1..Len(L) :
                   /\ L[k].window.hwnd \in scored
                   /\ L[k].window = available_windows[P(L[k].window.hwnd)]
                   /\ L[k].reason = [tag |-> "AI Rank", rank |-> k]
                   /\ L[k].confidence.label = "Score"
                   /\ 10 * L[k].confidence.value - S(L[k].window.hwnd) \in -5..4
            /\ \A k \in 1..(Len(L) - 1) : Better(L[k].window.hwnd, L[k + 1].window.hwnd)
            /\ \A k \in 1..(Len(L) - 1) :
                   L[k].confidence.value >= L[k + 1].confidence.value
            /\ \A h \in scored \ chosen : \A k \in 1..Len(L) : Better(L[k].window.hwnd, h)

C6_Witness ==
    /\ pc = "returned"
    /\ calls.llm
    /\ Len(window_scores) = 4
    /\ Len(suggestions) = 3
    /\ suggestions = llm_suggestions.list
    /\ suggestions[1].confidence.value = 80
    /\ suggestions[2].confidence.value = 80
    /\ suggestions[3].confidence.value = 40
    /\ window_scores[1].score = 400
    /\ window_scores[4].score = 400

\* C7: one invocation sends at most 1 classification query and at most 5
\* scoring queries, the k-th scoring query is for the k-th window, so no
\* window is queried twice and none after the fifth, whatever the backend
\* did with the earlier queries.
C7_QueryCap ==
    /\ Len(queries.classify) <= 1
    /\ Len(queries.score) <= 5
    /\ Len(queries.score) <= Len(available_windows)
    /\ \A k \in 1..Len(queries.score) : queries.score[k] = available_windows[k].hwnd
    /\ \A j, k \in 1..Len(queries.score) : j # k => queries.score[j] # queries.score[k]
    /\ ~calls.llm => queries = NoQueries

C7_Witness ==
    /\ pc = "returned"
    /\ Len(available_windows) > 5
    /\ queries.classify = <<BackendRaises>>
    /\ Len(queries.score) = 5
    /\ queries.last = <<" ">>
    /\ window_scores = <<>>

\* C8: in the classification step of the LLM engine a rule confidence of at
\* least 0.8 gives the rule category without a query; a lower one sends
\* exactly one query and gives the category of the first keyword found in
\* the reply, or the rule category if no keyword is found, the reply is
\* empty or the query fails.
C8_HybridClassification ==
    (calls.llm /\ pc \in {"score", "returned"}) =>
        LET rule == classify_content(content)
            Hits(reply) == {k \in 1..Len(type_keywords) :
                               /\ reply # BackendRaises
                               /\ Contains(Lower(reply), type_keywords[k].keyword)}
        IN  IF rule.conf >= 80
            THEN queries.classify = <<>> /\ content_type = rule.type
            ELSE /\ Len(queries.classify) = 1
                 /\ content_type = IF Hits(queries.classify[1]) # {}
                                   THEN type_keywords[SetMin(Hits(queries.classify[1]))].type
                                   ELSE rule.type

C8_Witness ==
    /\ pc = "score"
    /\ queries.classify = << <<"w","e","b">> >>
    /\ content_type = "WEB"
    /\ classify_content(content) = Classified("TEXT", 60)

C8_WitnessConfident ==
    /\ pc = "score"
    /\ queries.classify = <<>>
    /\ classify_content(content) = Classified("PASSWORD", 80)
    /\ content_type = "PASSWORD"

\* C9: a scoring query that fails, by an exception of the backend or an
\* empty reply, leaves the collected scores as they are and does not end the
\* loop: each of the first 5 windows is queried, and the ranking is returned
\* if 2 of them got a score.
C9_Returned ==
    (pc = "returned" /\ calls.llm) =>
        /\ Len(queries.score) = FirstFive
        /\ Len(window_scores) >= 2 =>
               (~llm_suggestions.none /\ suggestions = llm_suggestions.list)

C9_Step ==
    (pc = "score" /\ queries'.score # queries.score
        /\ queries'.last \in {BackendRaises, <<" ">>}) =>
        /\ window_scores' = window_scores
        /\ Len(queries'.score) < FirstFive => pc' = "score"

C9_FailureIsLocal == []C9_Returned /\ [][C9_Step]_vars

C9_Witness ==
    /\ pc = "returned"
    /\ calls.llm
    /\ Len(queries.score) = 5
    /\ queries.last = BackendRaises
    /\ Len(window_scores) = 2
    /\ window_scores[1].window.hwnd = available_windows[2].hwnd
    /\ window_scores[2].window.hwnd = available_windows[4].hwnd
    /\ Len(suggestions) = 2
    /\ suggestions[1].reason.tag = "AI Rank"

\* C10 as stated: an exception of the backend during the classification
\* query ends the LLM path: the engine returns None, no window is scored and
\* the controller falls back to the rule engine.
C10_ClassificationFailureAborts ==
    [][(pc = "classify" /\ queries'.classify = <<BackendRaises>>) =>
          /\ pc' = "returned"
          /\ llm_suggestions'.none
          /\ calls'.rule = 1
          /\ queries'.score = <<>>]_vars

C10_StepRecovers ==
    (pc = "classify" /\ queries'.classify = <<BackendRaises>>) =>
        /\ pc' = "score"
        /\ content_type' = classify_content(content).type
        /\ window_scores' = <<>>
        /\ calls'.rule = 0

C10_ReturnedAfterFailure ==
    (pc = "returned" /\ queries.classify = <<BackendRaises>>) =>
        /\ Len(queries.score) = FirstFive
        /\ Len(window_scores) >= 2 <=> ~llm_suggestions.none
        /\ Len(window_scores) >= 2 <=> calls.rule = 0

\* C10 amended: an exception of the backend during the classification query
\* does not end the LLM path: the rule category is used, the first 5 windows
\* are scored, and the engine returns None, the controller falling back to
\* the rule engine, only if fewer than 2 of them got a score.
C10_ClassificationFailureRecovers ==
    []C10_ReturnedAfterFailure /\ [][C10_StepRecovers]_vars

C10_Witness ==
    /\ pc = "returned"
    /\ queries.classify = <<BackendRaises>>
    /\ Len(window_scores) >= 2
    /\ suggestions = llm_suggestions.list
    /\ Len(suggestions) >= 2
    /\ calls.rule = 0


---------------------------------------------------------------------------
(* C12: the empty candidate list                                           *)

\* C12: for non-blank content, when get_filtered_windows returns the empty
\* list the invocation returns the empty list as a normal result, and it has
\* called neither the LLM engine nor the rule engine and sent no query.
C12_EmptyCandidatesReturnEmpty ==
    (pc # "idle" /\ Strip(content) # <<>> /\ Len(available_windows) = 0) =>
        /\ pc = "returned"
        /\ suggestions = <<>>
        /\ calls = [windows |-> TRUE, llm |-> FALSE, rule |-> 0]
        /\ queries = NoQueries
        /\ llm_suggestions = NoneList
        /\ rule_suggestions = NoneList

C12_Witness ==
    /\ pc = "returned"
    /\ llm_engine = "ready"
    /\ content = <<"h","t","t","p","s",":","/","/","a",".","i","o","/","x">>
    /\ calls.windows
    /\ available_windows = <<>>
    /\ suggestions = <<>>

---------------------------------------------------------------------------
(* C13..C17: the classifier's cascade                                      *)

\* the text has been classified
IsClassified == classification # Unclassified

\* the detectors of the cascade, as conditions on the text T, numbered in
\* the order of the list: 1 WEB by scheme, 2 WEB by bare domain, 3 EMAIL by
\* address, 4 EMAIL by markers, 5 FILE, 6 PASSWORD, 7 CODE, 8 DATA by
\* tabular shape, 9 DATA by digit ratio, 10 the TEXT default
CascadeFires(k, T) ==
    LET low == Strip(Lower(T))
        after == SplitPart(T, "@", 2)
        markers == CountIn(email_patterns, ReplaceChar(low, "\n", " "))
        weight == 40 * CountIn(code_patterns_high, low)
                  + 25 * CountIn(code_patterns_medium, low)
                  + 10 * CountIn(code_patterns_low, low)
        lines == SplitCount(T, "\n")
        separators ==
            Cardinality({p \in (1..MinOf(5, lines)) \X SeqRange(data_indicators) :
                             Contains(SplitPart(T, "\n", p[1]), <<p[2]>>)})
        digits == Cardinality({i \in 1..Len(T) : IsDigit(T[i])})
    IN  CASE k = 1 -> \E i \in 1..Len(url_indicators) : StartsWith(low, url_indicators[i])
          [] k = 2 -> /\ Contains(T, <<".">>)
                      /\ ~Contains(Strip(T), <<" ">>)
                      /\ \E i \in 1..Len(domain_tlds) : EndsWith(low, domain_tlds[i])
          [] k = 3 -> /\ SplitCount(T, "@") = 2
                      /\ Contains(after, <<".">>)
          [] k = 4 -> markers >= 2 \/ (markers >= 1 /\ lines > 2)
          [] k = 5 -> /\ Contains(T, <<"\\","\\">>) \/ Contains(T, <<"/">>)
                      /\ TokenCount(T) = 1
          [] k = 6 -> /\ Len(T) < 50
                      /\ ~Contains(T, <<" ">>)
                      /\ \E i \in 1..Len(T) : IsDigit(T[i])
                      /\ \E i \in 1..Len(T) : IsAlpha(T[i])
          [] k = 7 -> weight >= 30
          [] k = 8 -> lines > 3 /\ separators >= 3
          [] k = 9 -> 10 * digits > 3 * Len(T) /\ Len(T) > 10
          [] k = 10 -> TRUE

\* the category of each detector and the confidences it can give
CascadeCategory ==
    << "WEB", "WEB", "EMAIL", "EMAIL", "FILE", "PASSWORD", "CODE", "DATA", "DATA", "TEXT" >>

CascadeConfidences ==
    << {95, 85}, {85}, {90, 70}, 70..90, {90, 70}, {80, 60}, 80..95, {80, 60}, {70},
       {90, 60} >>

\* the first detector of the list that fires on T
FirstDetector(T) == SetMin({k \in 1..10 : CascadeFires(k, T)})

\* C13: every text that starts with "https://" is classified WEB with
\* confidence 0.95, whatever follows the scheme.
C13_HttpsIsWeb ==
    (IsClassified /\ StartsWith(text, <<"h","t","t","p","s",":","/","/">>)) =>
        classification = [type |-> "WEB", conf |-> 95]

C13_Witness ==
    /\ IsClassified
    /\ StartsWith(text, <<"h","t","t","p","s",":","/","/">>)
    /\ Contains(text, <<"d","e","f"," ","f","o","o","(",")",":">>)
    /\ Contains(text, <<"@">>)
    /\ classification.type = "WEB"

\* C14: every whitespace-free text with exactly one '@' whose part after
\* the '@' contains a dot and has a last label of at least 2 characters is
\* classified EMAIL with confidence 0.9.
C14_AddressIsEmail ==
    (/\ IsClassified
     /\ \A i \in 1..Len(text) : ~IsSpace(text[i])
     /\ SplitCount(text, "@") = 2
     /\ Contains(SplitPart(text, "@", 2), <<".">>)
     /\ Len(SplitPart(SplitPart(text, "@", 2), ".",
                      SplitCount(SplitPart(text, "@", 2), "."))) >= 2) =>
        classification = [type |-> "EMAIL", conf |-> 90]

\* C15: every text that contains "def foo():" is classified CODE.
C15_DefIsCode ==
    (IsClassified /\ Contains(text, <<"d","e","f"," ","f","o","o","(",")",":">>)) => classification.type = "CODE"

\* C15 amended: every text that contains "def foo():" and on which neither
\* the URL test nor one of the two e-mail tests fires is classified CODE.
C15_DefIsCodeUnlessEarlier ==
    (/\ IsClassified
     /\ Contains(text, <<"d","e","f"," ","f","o","o","(",")",":">>)
     /\ \A k \in {1, 3, 4} : ~CascadeFires(k, text)) =>
        classification.type = "CODE"

C15_Witness ==
    /\ IsClassified
    /\ text = <<"u","s","e","r"," ","d","e","f"," ","f","o","o","(",")",":">>
    /\ classification = [type |-> "CODE", conf |-> 90]

\* C16: the result is the one of the first detector of the list that fires
\* on the text, whatever later detectors fire too, and it is one category
\* of the closed set with a confidence between 0 and 1.
C16_FirstMatchWins ==
    IsClassified =>
        LET first == FirstDetector(text)
        IN  /\ classification.type = CascadeCategory[first]
            /\ classification.conf \in CascadeConfidences[first]
            /\ classification.type \in
                   {"CODE", "WEB", "EMAIL", "FILE", "PASSWORD", "DATA", "TEXT"}
            /\ classification.conf \in 0..100

C16_Witness ==
    /\ IsClassified
    /\ Cardinality({k \in 1..9 : CascadeFires(k, text)}) >= 3
    /\ FirstDetector(text) = 2
    /\ classification = [type |-> "WEB", conf |-> 85]

\* C17: every single whitespace-free token that contains a slash or a
\* backslash and on which no earlier detector fires is classified FILE,
\* with confidence 0.9 if it ends with a known file extension, else 0.7.
C17_PathIsFile ==
    (/\ IsClassified
     /\ Len(text) > 0
     /\ \A i \in 1..Len(text) : ~IsSpace(text[i])
     /\ Contains(text, <<"/">>) \/ Contains(text, <<"\\">>)
     /\ \A k \in 1..4 : ~CascadeFires(k, text)) =>
        classification =
            [type |-> "FILE",
             conf |-> IF \E i \in 1..Len(file_extensions) :
                             EndsWith(Lower(text), file_extensions[i])
                      THEN 90 ELSE 70]

---------------------------------------------------------------------------
(* C18..C20: the parsing of a reply                                        *)

\* the reply has been parsed
IsParsed == normalized # NotParsed

\* the reply after the cleaning steps, lower-cased
CleanedLower == Lower(CleanResponse(_query_llm(response)))

\* C18: for every reply that is not empty after cleaning, the score is 0.8
\* if the cleaned reply contains "yes" in any case, else 0.2 if it contains
\* "no", whatever digits, "12345" or rating words the reply holds too.
C18_YesNoFirst ==
    (IsParsed /\ Len(response) > 0 /\ Len(CleanedLower) > 0) =>
        /\ Contains(CleanedLower, <<"y","e","s">>) => normalized = 800
        /\ (~Contains(CleanedLower, <<"y","e","s">>) /\ Contains(CleanedLower, <<"n","o">>)) =>
               normalized = 200

C18_Witness ==
    /\ IsParsed
    /\ response = <<"Y","E","S","1","2","3","4","5","p","e","r","f","e","c","t">>
    /\ normalized = 800

\* C19: for every n in 0..5 the reply "score: n/5" is scored n/5.
C19_FractionOfFive ==
    \A n \in 0..5 :
        (IsParsed /\ response = <<"s","c","o","r","e",":"," ">> \o <<Digits[n + 1]>> \o <<"/","5">>) =>
            normalized = 200 * n

\* C20: for every reply that contains no digit 0-5 and contains a rating
\* word, the score is the value of the first vocabulary word found,
\* divided by 5.
C20_RatingWords ==
    LET found == {k \in 1..Len(rating_words) :
                     Contains(Lower(response), rating_words[k].word)}
    IN  (/\ IsParsed
         /\ \A i \in 1..Len(response) : ~IsScoreDigit(response[i])
         /\ found # {}) =>
            normalized = 200 * rating_words[SetMin(found)].score

---------------------------------------------------------------------------
(* C11: one invocation at a time                                           *)

\* C11: under every interleaving of start_monitoring, stop_monitoring and
\* the polling loop, at most one monitor thread is alive and at most one
\* get_suggestions_for_content call is in flight.
C11_OneInvocationAtATime ==
    /\ Cardinality({t \in Threads : Alive(t)}) <= 1
    /\ Cardinality({t \in Threads : thread[t] = "handle"}) <= 1
---------------------------------------------------------------------------
(* C21, C28: the range of the parsed score and the numeric steps           *)

\* C21: every reply is parsed to "unparseable" or to a score between 0 and
\* 1; a reply that is empty or blank, or that is empty after the removal of
\* the reasoning spans and of the formatting characters, is unparseable.
C21_ScoreOrUnparseable ==
    IsParsed =>
        /\ normalized = NoScore \/ normalized \in 0..1000
        /\ Len(Strip(response)) = 0 => normalized = NoScore
        /\ Len(CleanResponse(Strip(response))) = 0 => normalized = NoScore

C21_Witness ==
    /\ IsParsed
    /\ response = <<"-","<","t","h","i","n","k",">","<","/","t","h","i","n","k",">">>
    /\ normalized = NoScore

\* the reply after the cleaning steps
Cleaned == CleanResponse(_query_llm(response))

\* C28: for every cleaned reply that contains neither "yes" nor "no": if it
\* holds a number (a digit 0-5 with an optional decimal fraction, as the
\* search finds them from left to right) of at most 5, the score is the
\* highest such number divided by 5, at most 1.0, whatever lead-in or rating
\* word the reply holds too; if it holds "12345" the score is 1.0.
C28_HighestValidNumber ==
    (/\ IsParsed
     /\ Len(response) > 0
     /\ ~Contains(CleanedLower, <<"y","e","s">>)
     /\ ~Contains(CleanedLower, <<"n","o">>)) =>
        LET clean == Cleaned
            valid == {i \in FindScores(clean, 1) :
                         \/ DigitValue(clean[i]) < 5
                         \/ \A j \in (i + 2)..NumberEnd(clean, i) : clean[j] = "0"}
        IN  /\ valid # {} =>
                   \E i \in valid :
                       /\ \A j \in valid : NumberValue(clean, j) <= NumberValue(clean, i)
                       /\ normalized = MinOf(1000, 2 * NumberValue(clean, i))
            /\ Contains(clean, <<"1","2","3","4","5">>) => normalized = 1000

\* C28 amended: for every cleaned reply that contains neither "yes" nor
\* "no": if it holds "12345" the score is 1.0; if not, and it holds a number
\* of at most 5, the score is the highest such number divided by 5, whatever
\* lead-in or rating word the reply holds too.
C28_HighestValidNumberUnless12345 ==
    (/\ IsParsed
     /\ Len(response) > 0
     /\ ~Contains(CleanedLower, <<"y","e","s">>)
     /\ ~Contains(CleanedLower, <<"n","o">>)) =>
        LET clean == Cleaned
            valid == {i \in FindScores(clean, 1) :
                         \/ DigitValue(clean[i]) < 5
                         \/ \A j \in (i + 2)..NumberEnd(clean, i) : clean[j] = "0"}
        IN  /\ Contains(clean, <<"1","2","3","4","5">>) => normalized = 1000
            /\ (~Contains(clean, <<"1","2","3","4","5">>) /\ valid # {}) =>
                   \E i \in valid :
                       /\ \A j \in valid : NumberValue(clean, j) <= NumberValue(clean, i)
                       /\ normalized = MinOf(1000, 2 * NumberValue(clean, i))

\* a rating word, a lower number and the highest number in one reply
C28_Witness ==
    /\ IsParsed
    /\ response = <<"g","o","o","d","2",".","5"," ","4">>
    /\ normalized = 800

---------------------------------------------------------------------------
(* C22..C27: the rule tier                                                 *)

\* get_suggestions_for_content has returned what the rule tier gave
RuleTierReturned == pc = "returned" /\ llm_engine = "None"

\* the category the rule tier works with
RuleCategory == classify_content(content).type

\* the process name as _calculate_window_score compares it
ProcessLower(w) == RemoveAll(Lower(w.process_name), <<".","e","x","e">>)

IsBrowser(w) == Lower(w.process_name) = <<"c","h","r","o","m","e",".","e","x","e">>

\* w matches nothing in the table of the category t: no high-priority or
\* medium-priority substring in its process name, no keyword in its title
MatchesNothing(w, t) ==
    /\ ~AnyIn(content_mappings[t].high_priority, ProcessLower(w))
    /\ ~AnyIn(content_mappings[t].medium_priority, ProcessLower(w))
    /\ CountIn(content_mappings[t].keywords, Lower(w.title)) = 0

\* C22: with the model tier disabled and a content that starts with
\* "https://", for every candidate list made of chrome.exe windows (at least
\* one) and of windows that match nothing in the WEB table, the result is
\* the rule tier's, its first entry is a chrome.exe window labeled "High",
\* and every window that matches nothing comes after it, labeled "Recent".
C22_UrlGoesToBrowser ==
    (/\ RuleTierReturned
     /\ StartsWith(content, <<"h","t","t","p","s",":","/","/">>)
     /\ \E i \in 1..Len(available_windows) : IsBrowser(available_windows[i])
     /\ \A i \in 1..Len(available_windows) :
            \/ IsBrowser(available_windows[i])
            \/ MatchesNothing(available_windows[i], "WEB")) =>
        /\ calls.rule = 1 /\ ~calls.llm
        /\ suggestions = rule_suggestions.list
        /\ Len(suggestions) > 0
        /\ IsBrowser(suggestions[1].window)
        /\ suggestions[1].reason.tag = "WEB"
        /\ suggestions[1].confidence.label = "High"
        /\ \A k \in 1..Len(suggestions) :
               MatchesNothing(suggestions[k].window, "WEB") =>
                   k > 1 /\ suggestions[k].confidence.label = "Recent"

\* the primary suggestions of a list: those of the category, not "Recent"
IsPrimary(s) == s.confidence.label \in {"High", "Medium", "Low"}

\* C26: every category the classifier returns has a table in the ranker;
\* for content classified FILE, a candidate whose process name holds a
\* high-priority substring of the file table gets a primary suggestion
\* "FILE -> <process>" (or three other candidates do).
C26_EveryCategoryHasTable ==
    RuleTierReturned =>
        /\ RuleCategory \in DOMAIN content_mappings
        /\ RuleCategory = "FILE" =>
               \A i \in 1..Len(available_windows) :
                   AnyIn(content_mappings["FILE_PATH"].high_priority,
                         ProcessLower(available_windows[i])) =>
                       \/ \E k \in 1..Len(suggestions) :
                              /\ suggestions[k].window = available_windows[i]
                              /\ suggestions[k].reason.tag = "FILE"
                              /\ IsPrimary(suggestions[k])
                       \/ /\ Len(suggestions) = 3
                          /\ \A k \in 1..3 : IsPrimary(suggestions[k])

\* C27: the bonus a candidate gets from the content is the one of the
\* content's category: 0.3 or none for WEB content, 0.2 or none for FILE
\* and for CODE content, none for the other categories.
C27_BonusOfTheCategory ==
    RuleTierReturned =>
        \A i \in 1..Len(available_windows) :
            LET bonus == _get_content_specific_score(available_windows[i], content)
            IN  /\ RuleCategory = "WEB" => bonus \in {0, 30}
                /\ RuleCategory \in {"FILE", "CODE"} => bonus \in {0, 20}
                /\ RuleCategory \notin {"WEB", "FILE", "CODE"} => bonus = 0

\* the ranking _get_suggestions_for_type makes of the candidates: the
\* scored windows after the sort
Ranked ==
    SortByScoreDesc(ScoredWindows(available_windows, content_mappings[RuleCategory],
                                  content))

\* the index of the window w in the list of candidates
CandidateIndex(w) ==
    CHOOSE i \in 1..Len(available_windows) : available_windows[i] = w

\* C23: the ranking holds exactly the candidates with a score above 0, each
\* with its score, a score in (0,1]; it is ordered by score descending and
\* candidates with equal scores are in the order of the candidate list; the
\* primary suggestions are its first three entries.
C23_RankingIsStable ==
    (RuleTierReturned /\ RuleCategory \in DOMAIN content_mappings) =>
        LET ranked == Ranked
            scores == [i \in 1..Len(available_windows) |->
                          _calculate_window_score(available_windows[i],
                              content_mappings[RuleCategory], content)]
        IN  /\ {ranked[k].window : k \in 1..Len(ranked)} =
                   {available_windows[i] :
                       i \in {j \in 1..Len(available_windows) : scores[j] > 0}}
            /\ \A k \in 1..Len(ranked) :
                   /\ ranked[k].score = scores[CandidateIndex(ranked[k].window)]
                   /\ ranked[k].score \in 1..1000
            /\ \A k \in 1..Len(ranked), l \in 1..Len(ranked) :
                   k < l =>
                       /\ ranked[k].window # ranked[l].window
                       /\ ranked[k].score >= ranked[l].score
                       /\ ranked[k].score = ranked[l].score =>
                              CandidateIndex(ranked[k].window)
                                  < CandidateIndex(ranked[l].window)
            /\ \A k \in 1..Len(suggestions) :
                   IsPrimary(suggestions[k]) =>
                       k <= Len(ranked) /\ suggestions[k].window = ranked[k].window
            /\ Cardinality({k \in 1..Len(suggestions) : IsPrimary(suggestions[k])}) =
                   MinOf(3, Len(ranked))

\* two candidates with one score in the ranking, and a candidate ranked
\* ahead of an earlier candidate whose score is the next double below
C23_Witness ==
    /\ RuleTierReturned
    /\ StartsWith(content, <<"h","t","t","p","s",":","/","/">>)
    /\ Len(available_windows) = 4
    /\ LET ranked == Ranked
       IN  /\ Len(ranked) = 4
           /\ ranked[1].score = 900 /\ ranked[2].score = 899
           /\ CandidateIndex(ranked[1].window) > CandidateIndex(ranked[2].window)
           /\ ranked[3].score = ranked[4].score
           /\ CandidateIndex(ranked[3].window) < CandidateIndex(ranked[4].window)

\* C24: every primary suggestion is labeled by the score of its window,
\* "High" from 0.8, "Medium" from 0.5 and below 0.8, "Low" below 0.5, and
\* carries the confidence of the classification; a window whose process
\* name holds a high-priority substring is labeled "High", one that holds a
\* medium-priority substring "Medium" or "High".
C24_PriorityFromScore ==
    (RuleTierReturned /\ RuleCategory \in DOMAIN content_mappings) =>
        \A k \in 1..Len(suggestions) :
            IsPrimary(suggestions[k]) =>
                LET window == suggestions[k].window
                    mapping == content_mappings[RuleCategory]
                    score == _calculate_window_score(window, mapping, content)
                    priority == suggestions[k].confidence.label
                IN  /\ priority = "High" <=> score >= 800
                    /\ priority = "Medium" <=> (score >= 500 /\ score < 800)
                    /\ priority = "Low" <=> score < 500
                    /\ suggestions[k].confidence.value = classify_content(content).conf
                    /\ suggestions[k].reason =
                           [tag |-> RuleCategory, process |-> window.process_name]
                    /\ AnyIn(mapping.high_priority, ProcessLower(window)) =>
                           priority = "High"
                    /\ AnyIn(mapping.medium_priority, ProcessLower(window)) =>
                           priority \in {"High", "Medium"}

\* the three labels in one result, the first for a score of exactly 0.8
C24_Witness ==
    /\ RuleTierReturned
    /\ content = <<"h","i"," ","a","l","l">>
    /\ Len(suggestions) = 3
    /\ suggestions[1].window.title = <<"P","r","o","j","e","c","t"," ","f","o","l","d","e","r"," ","l","i","s","t">>
    /\ suggestions[1].confidence = [label |-> "High", value |-> 60]
    /\ suggestions[2].confidence = [label |-> "Medium", value |-> 60]
    /\ suggestions[3].confidence = [label |-> "Low", value |-> 60]

\* C25: the result is the primary suggestions followed, if they are fewer
\* than 3, by "Recent" suggestions for the first candidates of the list
\* that are not minimized and not among the primary ones, in the order of
\* the list, up to 3 entries in all or until no such candidate is left.
C25_RecentBackfill ==
    RuleTierReturned =>
        LET primary == PrimarySuggestions(classify_content(content), content,
                                          available_windows)
            n == Len(primary)
            eligible == {i \in 1..Len(available_windows) :
                            /\ ~available_windows[i].is_minimized
                            /\ \A k \in 1..n :
                                   primary[k].window.hwnd # available_windows[i].hwnd}
        IN  /\ n <= 3
            /\ Len(suggestions) = MinOf(3, n + Cardinality(eligible))
            /\ \A k \in 1..Len(suggestions) :
                   IF k <= n
                   THEN suggestions[k] = primary[k] /\ IsPrimary(suggestions[k])
                   ELSE /\ suggestions[k].confidence.label = "Recent"
                        /\ suggestions[k].reason =
                               [tag |-> "Recent",
                                process |-> suggestions[k].window.process_name]
                        /\ CandidateIndex(suggestions[k].window) \in eligible
                        /\ Cardinality({i \in eligible :
                               i < CandidateIndex(suggestions[k].window)}) = k - n - 1

\* one primary suggestion, then two recent ones, a minimized candidate
\* having been passed over
C25_Witness ==
    /\ RuleTierReturned
    /\ Len(suggestions) = 3
    /\ IsPrimary(suggestions[1])
    /\ suggestions[2].confidence.label = "Recent"
    /\ suggestions[3].confidence.label = "Recent"
    /\ CandidateIndex(suggestions[2].window) < CandidateIndex(suggestions[3].window)
    /\ \E i \in 1..Len(available_windows) :
           /\ i < CandidateIndex(suggestions[2].window)
           /\ available_windows[i].is_minimized
           /\ \A k \in 1..3 : suggestions[k].window # available_windows[i]

---------------------------------------------------------------------------
(* C29: a stopped monitor ends                                             *)

\* C29: under fair scheduling, with the calls of the clipboard and of
\* get_suggestions_for_content returning, a monitor thread that is alive
\* while is_monitoring is false ends unless start_monitoring sets
\* is_monitoring again; while is_monitoring is false no thread passes the
\* loop test, a handling begins only after a paste and a paste only after
\* a passed loop test, so at most one handling begins after the stop; and
\* no step taken while is_monitoring is true starts a thread.
C29_StoppedMonitorEnds ==
    /\ \A t \in Threads :
          (Alive(t) /\ ~is_monitoring) ~> (~Alive(t) \/ is_monitoring)
    /\ [][\A t \in Threads :
             /\ (thread'[t] = "paste" /\ thread[t] # "paste")
                    => (thread[t] = "while" /\ is_monitoring)
             /\ (thread'[t] = "compare" /\ thread[t] # "compare")
                    => thread[t] = "paste"
             /\ (thread'[t] = "changed" /\ thread[t] # "changed")
                    => thread[t] = "compare"]_vars
    /\ [][is_monitoring =>
             \A t \in Threads : thread[t] = "unborn" => thread'[t] = "unborn"]_vars

\* stop_monitoring has returned after a handling of "/x.py" and the monitor
\* thread has left its loop
C29_Witness ==
    /\ ~is_monitoring
    /\ caller = "idle"
    /\ monitor_thread = 1
    /\ thread[1] = "dead"
    /\ last_clipboard = <<"/","x",".","p","y">>

---------------------------------------------------------------------------
(* C30: one handling per clipboard change                                  *)

\* C30: a polled value is handled exactly when it is not blank and differs
\* from last_clipboard, so that no handling sets last_clipboard to the
\* value it already has or to a blank value; and the steps of a handling
\* come in the order last_clipboard, on_clipboard_change,
\* get_suggestions_for_content, on_suggestions_ready.
C30_OneHandlingPerChange ==
    [][\A t \in Threads :
          /\ (thread[t] = "compare" /\ thread'[t] # "compare")
                => (thread'[t] = "changed"
                       <=> (/\ current_clipboard[t] # last_clipboard
                            /\ ~IsBlank(current_clipboard[t])))
          /\ (thread[t] = "changed" /\ thread'[t] # "changed")
                => /\ thread'[t] = "notify"
                   /\ last_clipboard' = current_clipboard[t]
                   /\ last_clipboard' # last_clipboard
                   /\ ~IsBlank(last_clipboard')
          /\ (thread[t] # "changed" /\ thread'[t] = thread[t])
                => (last_clipboard' # last_clipboard
                       => \E u \in Threads : thread[u] = "changed")
          /\ (thread[t] = "notify" /\ thread'[t] # "notify") => thread'[t] = "handle"
          /\ (thread[t] = "handle" /\ thread'[t] # "handle") => thread'[t] = "ready"
          /\ (thread[t] = "ready" /\ thread'[t] # "ready") => thread'[t] = "sleep"]_vars
===========================================================================
